---- MODULE Spec2Model ----
(***************************************************************************)
(* A model of the SpringRTS map parser (MapParser in map-parser.ts): the   *)
(* parseMap pipeline with its temp directory and SIGINT listener, and the  *)
(* byte-level decoders parseSMF, parseSMT and parseDxt it is built from.   *)
(*                                                                         *)
(* Buffers are sparse: a length plus explicit byte segments, every other   *)
(* byte being 0.  That lets a well-formed SMF carry its 1024x1024 DXT1     *)
(* minimap region (524288 bytes) without listing it.                       *)
(***************************************************************************)
EXTENDS Integers, Sequences, FiniteSets, TLC

(***************************************************************************)
(* Generic helpers                                                         *)
(***************************************************************************)
Min(a, b) == IF a < b THEN a ELSE b
Max(a, b) == IF a > b THEN a ELSE b

RECURSIVE Repeat(_, _)
Repeat(x, n) == IF n <= 0 THEN <<>> ELSE <<x>> \o Repeat(x, n - 1)

RECURSIVE Concat(_)
Concat(ss) == IF ss = <<>> THEN <<>> ELSE Head(ss) \o Concat(Tail(ss))

Range(s) == {s[i] : i \in 1..Len(s)}

\* f itself, with the values of f computed once (the comparison has a function
\* that is written as [x \in S |-> e] evaluated on all of S)
Evaluated(f) == IF f = f THEN f ELSE f

\* what indexing a Buffer / Uint8Array outside its length yields (undefined)
Undef == -1
\* a Number that is NaN
NaN == -2

(***************************************************************************)
(* Buffers.  buf = [len |-> n, segs |-> <<[at |-> o, bytes |-> <<..>>]>>,   *)
(* fill |-> m]: byte i is given by the first segment covering i, and is    *)
(* (i * m) % 256 where no segment covers it.                               *)
(***************************************************************************)
RECURSIVE SegByte(_, _, _)
SegByte(segs, fill, i) ==
    IF segs = <<>> THEN (i * fill) % 256
    ELSE LET s == Head(segs) IN
         IF i >= s.at /\ i < s.at + Len(s.bytes) THEN s.bytes[i - s.at + 1]
         ELSE SegByte(Tail(segs), fill, i)

\* buffer[i]
ByteAt(buf, i) ==
    IF i < 0 \/ i >= buf.len THEN Undef ELSE SegByte(buf.segs, buf.fill, i)

\* Buffer.slice(start, end): a view, clamped to the buffer (never throws)
SliceStart(buf, start) == Min(Max(start, 0), buf.len)
SliceLen(buf, start, end) ==
    Max(Min(Max(end, 0), buf.len) - SliceStart(buf, start), 0)

\* view = [buf, off, len]: buf.slice(start, end)
Slice(buf, start, end) ==
    [buf |-> buf, off |-> SliceStart(buf, start), len |-> SliceLen(buf, start, end)]
WholeView(buf) == [buf |-> buf, off |-> 0, len |-> buf.len]
ViewByte(v, i) == IF i < 0 \/ i >= v.len THEN Undef ELSE ByteAt(v.buf, v.off + i)
SubView(v, start, end) ==
    LET s == Min(Max(start, 0), v.len)
        e == Min(Max(end, 0), v.len)
    IN  [buf |-> v.buf, off |-> v.off + s, len |-> Max(e - s, 0)]

(***************************************************************************)
(* ByteReader (BufferStream): typed little-endian reads at a cursor.  A    *)
(* read that would pass the end of the buffer fails with InputTruncated.   *)
(***************************************************************************)
\* would reading n bytes at position pos pass the end of the view?
Truncated(v, pos, n) == pos + n > v.len

\* readInt(size, unsigned) at pos: little-endian, size in {1, 2, 4}
ReadInt(v, pos, size, unsigned) ==
    LET b(k) == ViewByte(v, pos + k)
        top  == b(size - 1)
        topS == IF ~unsigned /\ top >= 128 THEN top - 256 ELSE top
    IN  CASE size = 1 -> topS
          [] size = 2 -> b(0) + 256 * topS
          [] OTHER    -> b(0) + 256 * b(1) + 65536 * b(2) + 16777216 * topS

RECURSIVE Pow2(_)
Pow2(n) == IF n <= 0 THEN 1 ELSE 2 * Pow2(n - 1)

\* readFloat() at pos: IEEE-754 binary32, little-endian.  The model keeps
\* integer-valued floats only, so the value is returned as an integer.
ReadFloat(v, pos) ==
    LET b0 == ViewByte(v, pos)
        b1 == ViewByte(v, pos + 1)
        b2 == ViewByte(v, pos + 2)
        b3 == ViewByte(v, pos + 3)
        sign == b3 \div 128
        expo == (b3 % 128) * 2 + (b2 \div 128)
        frac == (b2 % 128) * 65536 + b1 * 256 + b0
        mant == 8388608 + frac
        sh   == expo - 127 - 23
        mag  == IF expo = 0 THEN 0
                ELSE IF sh >= 0 THEN mant * Pow2(sh) ELSE mant \div Pow2(0 - sh)
    IN  IF sign = 1 THEN 0 - mag ELSE mag

\* readString(n) at pos: the n bytes as character codes, trailing NULs stripped
RECURSIVE TrimNuls(_)
TrimNuls(s) ==
    IF s # <<>> /\ s[Len(s)] = 0 THEN TrimNuls(SubSeq(s, 1, Len(s) - 1)) ELSE s
ReadString(v, pos, n) == TrimNuls([k \in 1..n |-> ViewByte(v, pos + k - 1)])

\* readInts(count, size, unsigned) at pos
ReadInts(v, pos, count, size, unsigned) ==
    [k \in 1..count |-> ReadInt(v, pos + (k - 1) * size, size, unsigned)]

\* readUntilNull() at pos: number of bytes consumed, terminator included;
\* Undef when the view ends before a NUL byte
RECURSIVE UntilNullLen(_, _, _)
UntilNullLen(v, pos, k) ==
    IF pos + k >= v.len THEN Undef
    ELSE IF ViewByte(v, pos + k) = 0 THEN k + 1
    ELSE UntilNullLen(v, pos, k + 1)

(***************************************************************************)
(* parse-dxt.ts: DXT1 decompression                                        *)
(***************************************************************************)
DXT1BlockSize == 8
BlockWidth == 4
BlockHeight == 4

\* x & 3 after x >> k, for a byte x (undefined coerces to 0)
Bits2(byte, k) == IF byte = Undef THEN 0 ELSE (byte \div Pow2(k)) % 4

\* (hi << 8) + lo: an undefined hi shifts to 0, an undefined lo makes the sum NaN
ColorValue(lo, hi) ==
    IF lo = Undef THEN NaN ELSE (IF hi = Undef THEN 0 ELSE hi * 256) + lo

\* a variant of getComponentsFromRGB565 that widens the 5- and 6-bit fields
\* to 8 bits by bit replication: R = (r5 << 3) | (r5 >> 2) and so on
ComponentsBitReplicated(color) ==
    IF color = NaN THEN <<0, 0, 0>>
    ELSE << (color \div 2048) * 8 + (color \div 2048) \div 4,
            ((color \div 32) % 64) * 4 + ((color \div 32) % 64) \div 16,
            (color % 32) * 8 + (color % 32) \div 4 >>

\* getComponentsFromRGB565: R = (v & 0xF800) >> 8, G = (v & 0x07E0) >> 3,
\* B = (v & 0x001F) << 3; NaN & mask = 0.  Result is <<R, G, B>>.
getComponentsFromRGB565(color) ==
    IF color = NaN THEN <<0, 0, 0>>
    ELSE << (color \div 2048) * 8, ((color \div 32) % 64) * 4, (color % 32) * 8 >>

\* a variant of generateDXT1Lookup that builds the four-colour opaque palette
\* whatever the order of the two colour values
LookupAlwaysOpaque(colorValue0, colorValue1) ==
    LET c0 == getComponentsFromRGB565(colorValue0)
        c1 == getComponentsFromRGB565(colorValue1)
    IN  << <<c0[1], c0[2], c0[3], 255>>,
           <<c1[1], c1[2], c1[3], 255>>,
           << (c0[1] * 2 + c1[1]) \div 3, (c0[2] * 2 + c1[2]) \div 3,
              (c0[3] * 2 + c1[3]) \div 3, 255 >>,
           << (c0[1] + c1[1] * 2) \div 3, (c0[2] + c1[2] * 2) \div 3,
              (c0[3] + c1[3] * 2) \div 3, 255 >> >>

\* generateDXT1Lookup: the four RGBA palette entries (index 0..3 at 1..4)
generateDXT1Lookup(colorValue0, colorValue1) ==
    LET c0 == getComponentsFromRGB565(colorValue0)
        c1 == getComponentsFromRGB565(colorValue1)
        gt == colorValue0 # NaN /\ colorValue1 # NaN /\ colorValue0 > colorValue1
    IN  IF gt
        THEN << <<c0[1], c0[2], c0[3], 255>>,
                <<c1[1], c1[2], c1[3], 255>>,
                << (c0[1] * 2 + c1[1]) \div 3, (c0[2] * 2 + c1[2]) \div 3,
                   (c0[3] * 2 + c1[3]) \div 3, 255 >>,
                << (c0[1] + c1[1] * 2) \div 3, (c0[2] + c1[2] * 2) \div 3,
                   (c0[3] + c1[3] * 2) \div 3, 255 >> >>
        ELSE << <<c0[1], c0[2], c0[3], 255>>,
                <<c1[1], c1[2], c1[3], 255>>,
                << (c0[1] + c1[1]) \div 2, (c0[2] + c1[2]) \div 2,
                   (c0[3] + c1[3]) \div 2, 255 >>,
                <<0, 0, 0, 0>> >>

\* decompressBlockDXT1: the 64 RGBA bytes of the 8-byte block `data`
\* (pixel i takes the palette entry selected by bits 2i, 2i+1 of bytes 4..7)
decompressBlockDXT1(data) ==
    LET cVal0  == ColorValue(ViewByte(data, 0), ViewByte(data, 1))
        cVal1  == ColorValue(ViewByte(data, 2), ViewByte(data, 3))
        lookup == generateDXT1Lookup(cVal0, cVal1)
        bits(i) == Bits2(ViewByte(data, 4 + (i * 2) \div 8), (i * 2) % 8)
    IN  [k \in 1..64 |-> lookup[bits((k - 1) \div 4) + 1][((k - 1) % 4) + 1]]

\* a variant of DxtThrows without the checks
DxtNeverThrows(width, height) == FALSE

\* decompress rejects these dimensions
DxtThrows(width, height) ==
    \/ width % BlockWidth # 0
    \/ height % BlockHeight # 0
    \/ width < BlockWidth \/ height < BlockHeight

\* iteration i of the loop of decompress writes the pixels
\* (pixelX + x, pixelY + y), x and y in 0 .. 3
BlockWrites(i, w, px, py) ==
    LET pixelX == (i % w) * 4
        pixelY == (i \div w) * 4
    IN  /\ px - pixelX >= 0 /\ px - pixelX < 4
        /\ py - pixelY >= 0 /\ py - pixelY < 4

\* decompress(width, height, data) for dimensions it accepts: `out` after the
\* loop over the blocks.  A byte of `out` holds what the last iteration that
\* wrote it put there, and 0 (new Uint8Array) when none did.
decompress(width, height, data) ==
    LET w == width \div BlockWidth
        h == height \div BlockHeight
        blockNumber == w * h
        decompressed == Evaluated([i \in 0..(blockNumber - 1) |->
            Evaluated(decompressBlockDXT1(
                SubView(data, i * DXT1BlockSize, (i + 1) * DXT1BlockSize)))])
    IN  Evaluated([idx \in 1..(width * height * 4) |->
            LET px == ((idx - 1) \div 4) % width
                py == ((idx - 1) \div 4) \div width
                writers == {i \in 0..(blockNumber - 1) : BlockWrites(i, w, px, py)}
            IN  IF writers = {} THEN 0
                ELSE LET i == CHOOSE m \in writers : \A k \in writers : k <= m
                         x == px - (i % w) * 4
                         y == py - (i \div w) * 4
                     IN  decompressed[i][(y * 4 + x) * 4 + ((idx - 1) % 4) + 1]])

\* parseDxt(buffer, width, height): [ok, data]; any throw of decompress is
\* rethrown as "Error parsing DXT"
parseDxt(buffer, width, height) ==
    IF DxtThrows(width, height) THEN [ok |-> FALSE, err |-> "Error parsing DXT"]
    ELSE [ok |-> TRUE, data |-> decompress(width, height, buffer)]

\* length of decompress's result: out = new Uint8Array(width * height * 4)
parseDxtLen(width, height) == width * height * 4

(***************************************************************************)
(* Rasters.  new Jimp({data, width, height}) takes raw RGBA data and       *)
(* throws unless data.length is width * height * 4.                        *)
(***************************************************************************)
JimpThrows(dataLen, width, height) == dataLen # width * height * 4

\* try { new Jimp({data, width, height}) } catch { new Jimp({data: Buffer.alloc(
\* width * height * 4, 0), width, height}) }: the raster a layer ends up with.
\* len is the length of the buffer the raster holds, zero says the fallback
\* was taken, srcLen is the number of input bytes the pixels were made from.
NewRaster(dataLen, width, height, srcLen) ==
    IF ~JimpThrows(dataLen, width, height)
    THEN [ok |-> TRUE, width |-> width, height |-> height, len |-> dataLen,
          zero |-> FALSE, srcLen |-> srcLen]
    ELSE LET emptyLen == width * height * 4 IN
         IF emptyLen < 0 \/ JimpThrows(emptyLen, width, height)
         THEN [ok |-> FALSE, width |-> width, height |-> height, len |-> 0,
               zero |-> TRUE, srcLen |-> 0]
         ELSE [ok |-> TRUE, width |-> width, height |-> height, len |-> emptyLen,
               zero |-> TRUE, srcLen |-> 0]

(***************************************************************************)
(* SMF files.  An input file is described by a small record and laid out   *)
(* as bytes by SmfBuffer; parseSMF below reads those bytes back.           *)
(***************************************************************************)
\* "spring map file" as character codes (followed by one NUL in the file)
SMFMagic == <<115, 112, 114, 105, 110, 103, 32, 109, 97, 112, 32, 102, 105, 108, 101>>
\* some other 15 characters: "spring map fail"
OtherMagic == <<115, 112, 114, 105, 110, 103, 32, 109, 97, 112, 32, 102, 97, 105, 108>>

\* the SMF header is 16 bytes of magic and 16 four-byte fields
SMFHeaderSize == 80
\* the minimap is always decoded as 1024 x 1024
MiniMapSide == 1024
\* bytes of a DXT1 image of MiniMapSide x MiniMapSide pixels
MiniMapDxtLen == (MiniMapSide * MiniMapSide) \div 2

LE32(n) == << n % 256, (n \div 256) % 256, (n \div 65536) % 256, (n \div 16777216) % 256 >>
LE16(n) == << n % 256, (n \div 256) % 256 >>

\* binary32 encoding (little-endian) of an integer in -4..4
FloatLE(n) ==
    LET a == IF n < 0 THEN 0 - n ELSE n
        s == IF n < 0 THEN 128 ELSE 0
    IN  CASE a = 0 -> <<0, 0, 0, s>>
          [] a = 1 -> <<0, 0, 128, 63 + s>>
          [] a = 2 -> <<0, 0, 0, 64 + s>>
          [] a = 3 -> <<0, 0, 64, 64 + s>>
          [] OTHER -> <<0, 0, 128, 64 + s>>

\* name of the tile file stored in the tile-index sub-header: "t" and a NUL
SmtFileNameBytes == <<116, 0>>

\* the height sample stored at position k (0-based) of an input file
HeightSample(f, k) == (f.hbase + k * f.hstep) % 65536

\* the bytes of the file described by f
SmfBuffer(f) ==
    LET nH == (f.mapWidth + 1) * (f.mapHeight + 1)
        nT == (f.mapWidth \div 2) * (f.mapHeight \div 2)
        header ==
            (IF f.magicOk THEN SMFMagic ELSE OtherMagic) \o <<0>>
            \o LE32(1) \o LE32(7) \o LE32(f.mapWidth) \o LE32(f.mapHeight)
            \o LE32(8) \o LE32(8) \o LE32(32)
            \o FloatLE(f.minDepth) \o FloatLE(f.maxDepth)
            \o LE32(f.heightMapIndex) \o LE32(f.typeMapIndex)
            \o LE32(f.tileIndexMapIndex) \o LE32(f.miniMapIndex)
            \o LE32(f.metalMapIndex) \o LE32(f.featureMapIndex) \o LE32(0)
        heights == Concat([k \in 1..nH |-> LE16(HeightSample(f, k - 1))])
        types   == [k \in 1..nT |-> k % 256]
        metals  == [k \in 1..nT |-> (k * 16) % 256]
        tileHdr == LE32(1) \o LE32(f.numOfTiles) \o LE32(f.numOfTiles)
                   \o SmtFileNameBytes
                   \o Concat([k \in 1..Len(f.tileIds) |-> LE32(f.tileIds[k])])
    IN  [len  |-> f.len, fill |-> 0,
         segs |-> << [at |-> 0, bytes |-> header],
                     [at |-> f.heightMapIndex, bytes |-> heights],
                     [at |-> f.typeMapIndex, bytes |-> types],
                     [at |-> f.tileIndexMapIndex, bytes |-> tileHdr],
                     [at |-> f.metalMapIndex, bytes |-> metals] >>]

\* what a failed parse returns
Failure(e) == [ok |-> FALSE, err |-> e]

\* a variant of MiniMapSizeOf with the historical fixed length
MiniMapSizeFixed(miniMapIndex, metalMapIndex, featureMapIndex, bufferLength) ==
    699048

\* miniMapSize: the distance from miniMapIndex to the next declared region
MiniMapSizeOf(miniMapIndex, metalMapIndex, featureMapIndex, bufferLength) ==
    IF metalMapIndex # 0 /\ metalMapIndex > miniMapIndex
    THEN metalMapIndex - miniMapIndex
    ELSE IF featureMapIndex # 0 /\ featureMapIndex > miniMapIndex
    THEN featureMapIndex - miniMapIndex
    ELSE bufferLength - miniMapIndex

\* singleChannelToQuadChannel: four output bytes per input byte
QuadChannelLen(srcLen) == srcLen * 4

\* the header fields of parseSMF, read in order from position 0
SmfHeader(v) ==
    [magic             |-> ReadString(v, 0, 16),
     version           |-> ReadInt(v, 16, 4, FALSE),
     id                |-> ReadInt(v, 20, 4, TRUE),
     mapWidth          |-> ReadInt(v, 24, 4, FALSE),
     mapHeight         |-> ReadInt(v, 28, 4, FALSE),
     squareSize        |-> ReadInt(v, 32, 4, FALSE),
     texelsPerSquare   |-> ReadInt(v, 36, 4, FALSE),
     tileSize          |-> ReadInt(v, 40, 4, FALSE),
     minDepth          |-> ReadFloat(v, 44),
     maxDepth          |-> ReadFloat(v, 48),
     heightMapIndex    |-> ReadInt(v, 52, 4, FALSE),
     typeMapIndex      |-> ReadInt(v, 56, 4, FALSE),
     tileIndexMapIndex |-> ReadInt(v, 60, 4, FALSE),
     miniMapIndex      |-> ReadInt(v, 64, 4, FALSE),
     metalMapIndex     |-> ReadInt(v, 68, 4, FALSE),
     featureMapIndex   |-> ReadInt(v, 72, 4, FALSE),
     noOfExtraHeaders  |-> ReadInt(v, 76, 4, FALSE)]

\* the tile-index part of parseSMF: the sub-header at tileIndexMapIndex (three
\* ints and a NUL-terminated name), then the tile indices, added to the
\* fields `layers` read so far
SmfTileIndex(tv, tileIndexMapSize, nameLen, layers) ==
    IF Truncated(tv, 0, 12) \/ nameLen = Undef THEN Failure("InputTruncated")
    ELSE IF Truncated(tv, 12 + nameLen, tileIndexMapSize * 4)
    THEN Failure("InputTruncated")
    ELSE [ok |-> TRUE, err |-> "",
          magic |-> layers.magic,
          mapWidth |-> layers.mapWidth, mapHeight |-> layers.mapHeight,
          minDepth |-> layers.minDepth, maxDepth |-> layers.maxDepth,
          heightMapIndex |-> layers.heightMapIndex,
          typeMapIndex |-> layers.typeMapIndex,
          tileIndexMapIndex |-> layers.tileIndexMapIndex,
          miniMapIndex |-> layers.miniMapIndex,
          metalMapIndex |-> layers.metalMapIndex,
          featureMapIndex |-> layers.featureMapIndex,
          numOfTilesInThisFile |-> ReadInt(tv, 8, 4, FALSE),
          miniMapSize |-> layers.miniMapSize,
          heightMap |-> layers.heightMap, typeMap |-> layers.typeMap,
          miniMap |-> layers.miniMap, metalMap |-> layers.metalMap,
          tileIndexMap |-> ReadInts(tv, 12 + nameLen, tileIndexMapSize, 4, FALSE),
          heightMapValues |-> layers.heightMapValues]

\* a layer whose fallback raster cannot be made either fails the parse
SmfChecked(layers, tv) ==
    IF ~layers.heightMap.ok \/ ~layers.typeMap.ok
       \/ ~layers.miniMap.ok \/ ~layers.metalMap.ok
    THEN Failure("JimpError")
    ELSE SmfTileIndex(tv, (layers.mapWidth \div 4) * (layers.mapHeight \div 4),
                      UntilNullLen(tv, 12, 0), layers)

\* the layers of parseSMF, from the slices of smfBuffer the header h declares:
\* each raster is made in its own try/catch (NewRaster)
SmfLayers(smfBuffer, h, heightMapBuffer, typeMapBuffer, miniMapBuffer, metalMapBuffer) ==
    [magic |-> h.magic, mapWidth |-> h.mapWidth, mapHeight |-> h.mapHeight,
     minDepth |-> h.minDepth, maxDepth |-> h.maxDepth,
     heightMapIndex |-> h.heightMapIndex, typeMapIndex |-> h.typeMapIndex,
     tileIndexMapIndex |-> h.tileIndexMapIndex, miniMapIndex |-> h.miniMapIndex,
     metalMapIndex |-> h.metalMapIndex, featureMapIndex |-> h.featureMapIndex,
     miniMapSize |-> miniMapBuffer.want,
     heightMapValues |->
         ReadInts(heightMapBuffer, 0, (h.mapWidth + 1) * (h.mapHeight + 1), 2, TRUE),
     heightMap |-> NewRaster((h.mapWidth + 1) * (h.mapHeight + 1) * 4,
                             h.mapWidth + 1, h.mapHeight + 1, heightMapBuffer.len),
     typeMap |-> NewRaster(QuadChannelLen(typeMapBuffer.len),
                           h.mapWidth \div 2, h.mapHeight \div 2, typeMapBuffer.len),
     miniMap |-> NewRaster(parseDxtLen(MiniMapSide, MiniMapSide),
                           MiniMapSide, MiniMapSide, miniMapBuffer.len),
     metalMap |-> NewRaster(QuadChannelLen(metalMapBuffer.len),
                            h.mapWidth \div 2, h.mapHeight \div 2, metalMapBuffer.len)]

\* smfBuffer.slice(start, start + size), with the size that was asked for
Region(smfBuffer, start, size) ==
    [buf  |-> smfBuffer,
     off  |-> SliceStart(smfBuffer, start),
     len  |-> SliceLen(smfBuffer, start, start + size),
     want |-> size]

\* parseSMF after the header h has been read: the extra headers are skipped,
\* the height samples are read, the layers are made, the tile indices read
SmfBody(smfBuffer, v, h) ==
    IF h.heightMapIndex - SMFHeaderSize > 0
       /\ Truncated(v, SMFHeaderSize, h.heightMapIndex - SMFHeaderSize)
    THEN Failure("InputTruncated")
    ELSE IF Truncated(Region(smfBuffer, h.heightMapIndex,
                             (h.mapWidth + 1) * (h.mapHeight + 1) * 2),
                      0, (h.mapWidth + 1) * (h.mapHeight + 1) * 2)
    THEN Failure("InputTruncated")
    ELSE IF DxtThrows(MiniMapSide, MiniMapSide) THEN Failure("Error parsing DXT")
    ELSE SmfChecked(
        SmfLayers(smfBuffer, h,
            Region(smfBuffer, h.heightMapIndex, (h.mapWidth + 1) * (h.mapHeight + 1) * 2),
            Region(smfBuffer, h.typeMapIndex, (h.mapWidth \div 2) * (h.mapHeight \div 2)),
            Region(smfBuffer, h.miniMapIndex,
                   MiniMapSizeOf(h.miniMapIndex, h.metalMapIndex,
                                 h.featureMapIndex, smfBuffer.len)),
            Region(smfBuffer, h.metalMapIndex, (h.mapWidth \div 2) * (h.mapHeight \div 2))),
        Slice(smfBuffer, h.tileIndexMapIndex, smfBuffer.len))

\* parseSMF(smfBuffer).  The magic is read into the record and compared with
\* nothing.  heightMapValues holds the 16-bit samples v; the value the code
\* stores is v / 65536.
parseSMF(smfBuffer) ==
    IF Truncated(WholeView(smfBuffer), 0, SMFHeaderSize)
    THEN Failure("InputTruncated")
    ELSE SmfBody(smfBuffer, WholeView(smfBuffer), SmfHeader(WholeView(smfBuffer)))

(***************************************************************************)
(* SMT files and parseSMT                                                  *)
(***************************************************************************)
\* "spring tilefile" as character codes (followed by one NUL in the file)
SMTMagic == <<115, 112, 114, 105, 110, 103, 32, 116, 105, 108, 101, 102, 105, 108, 101>>

\* the bytes of the tile file described by t: the 32-byte header, then data
SmtBuffer(t) ==
    [len  |-> t.len, fill |-> t.fill,
     segs |-> << [at |-> 0,
                  bytes |-> SMTMagic \o <<0>> \o LE32(1) \o LE32(t.numOfTiles)
                            \o LE32(32) \o LE32(1)] >>]

SMTHeaderSize == 32
ClassicStride == 680

\* the stride inference of parseSMT
CalcStride(numOfTiles, dataSize) ==
    IF numOfTiles > 0 THEN dataSize \div numOfTiles ELSE ClassicStride
\* a variant of TileStride that packs the records at the inferred stride
\* whatever their size
TileStridePacked(calcStride) == calcStride

TileStride(calcStride) == IF calcStride >= 512 THEN ClassicStride ELSE calcStride
BytesToRead(calcStride) == IF calcStride >= 512 THEN 512 ELSE calcStride
RealW(calcStride) ==
    IF calcStride >= 512 THEN 32
    ELSE IF calcStride >= 128 THEN 16
    ELSE IF calcStride >= 32 THEN 8
    ELSE 4

\* defaultTile: mipmapSize rows of mipmapSize * 4 zero bytes
DefaultTile(mipmapSize) == Repeat(Repeat(0, mipmapSize * 4), mipmapSize)

\* a loop iteration that is skipped (continue) or whose decode throws
Skipped == [ok |-> FALSE]

\* the DXT bytes of tile tileId, unless one of the guards of the catalogue
\* loop skips the tile
DxtSliceOf(smtBuffer, tileId, calcStride) ==
    LET stride == TileStride(calcStride)
        real_w == RealW(calcStride)
        offset == SMTHeaderSize + tileId * stride
        dxtLen == (real_w * real_w) \div 2
        tileBlock  == Slice(smtBuffer, offset, Min(offset + stride, smtBuffer.len))
        startIndex == IF real_w = 32 THEN 0
                      ELSE IF real_w = 16 THEN 512
                      ELSE IF real_w = 8 THEN 640 ELSE 672
        dxtSlice == IF stride = ClassicStride
                    THEN SubView(tileBlock, startIndex, startIndex + dxtLen)
                    ELSE Slice(smtBuffer, offset, offset + dxtLen)
    IN  IF offset + BytesToRead(calcStride) > smtBuffer.len THEN Skipped
        ELSE IF stride # ClassicStride /\ offset + dxtLen > smtBuffer.len THEN Skipped
        ELSE IF dxtSlice.len < dxtLen THEN Skipped
        ELSE [ok |-> TRUE, slice |-> dxtSlice]

\* tileImage.resize(w, w, RESIZE_NEAREST_NEIGHBOR) of a src x src RGBA image:
\* destination pixel (j, i) copies source pixel (floor(j*src/w), floor(i*src/w))
ResizeNearest(data, src, w) ==
    [k \in 1..(w * w * 4) |->
        LET p == (k - 1) \div 4
            iSrc == ((p \div w) * src) \div w
            jSrc == ((p % w) * src) \div w
        IN  data[(iSrc * src + jSrc) * 4 + ((k - 1) % 4) + 1]]

\* the rows of a decoded tile: resized to mipmapSize when the native size
\* differs, then cut into mipmapSize rows
TileRows(tileData, real_w, mipmapSize) ==
    Evaluated([r \in 1..mipmapSize |->
        SubSeq(IF real_w # mipmapSize
               THEN ResizeNearest(tileData, real_w, mipmapSize)
               ELSE tileData,
               (r - 1) * mipmapSize * 4 + 1, r * mipmapSize * 4)])

\* what parseDxt returned for a tile: skipped when the decode threw
AssembledRows(dec, real_w, mipmapSize) ==
    IF ~dec.ok THEN Skipped
    ELSE [ok |-> TRUE, rows |-> TileRows(dec.data, real_w, mipmapSize)]

\* the decode of the slice d that DxtSliceOf found
DecodeSlice(d, real_w, mipmapSize) ==
    IF ~d.ok THEN Skipped
    ELSE AssembledRows(parseDxt(d.slice, real_w, real_w), real_w, mipmapSize)

\* one iteration of the catalogue loop for tileId
DecodeTile(smtBuffer, tileId, numOfTiles, calcStride, mipmapSize) ==
    IF tileId < 0 \/ tileId >= numOfTiles THEN Skipped
    ELSE DecodeSlice(DxtSliceOf(smtBuffer, tileId, calcStride),
                     RealW(calcStride), mipmapSize)

\* refTiles from what the loop iterations decoded: entry i starts as a copy of
\* defaultTile and is replaced when tile i decodes, in the catalogue loop over
\* uniqueIndices or, when that loop decoded nothing, in the sequential fallback
RefTilesFrom(decoded, uniqueIndices, numOfTiles, mipmapSize) ==
    Evaluated([i \in 0..(numOfTiles - 1) |->
        IF (i \in uniqueIndices
            \/ Cardinality({j \in uniqueIndices : decoded[j].ok}) = 0)
           /\ decoded[i].ok
        THEN decoded[i].rows
        ELSE DefaultTile(mipmapSize)])

\* refTiles: a function on 0 .. numOfTiles-1
RefTiles(smtBuffer, tileIndexes, numOfTiles, calcStride, mipmapSize) ==
    RefTilesFrom(
        Evaluated([i \in Range(tileIndexes) \cup 0..(numOfTiles - 1) |->
            DecodeTile(smtBuffer, i, numOfTiles, calcStride, mipmapSize)]),
        Range(tileIndexes), numOfTiles, mipmapSize)

\* a variant of joinTilesHorizontally that appends the tiles of a strip one
\* after the other, each with all its rows
JoinTilesOneByOne(tiles, rows) ==
    Concat([k \in 1..(rows * Len(tiles)) |->
               tiles[((k - 1) \div rows) + 1][((k - 1) % rows) + 1]])

\* joinTilesHorizontally(tiles, rows): for each row y, the y-th row of every
\* tile of the strip in turn.  (tiles[x].shift() throws when tiles[x] is
\* undefined; SmtMosaic below tests for that before it calls this.)
joinTilesHorizontally(tiles, rows) ==
    Concat([k \in 1..(rows * Len(tiles)) |->
               tiles[((k - 1) % Len(tiles)) + 1][((k - 1) \div Len(tiles)) + 1]])

\* the end of parseSMT: the raster made from finalBuffer, or from a
\* zero-filled buffer when the length is off or the constructor throws
FinalRaster(finalBuffer, finalWidth, finalHeight) ==
    IF Len(finalBuffer) # finalWidth * finalHeight * 4
       \/ JimpThrows(Len(finalBuffer), finalWidth, finalHeight)
    THEN IF JimpThrows(finalWidth * finalHeight * 4, finalWidth, finalHeight)
         THEN Failure("JimpError")
         ELSE [ok |-> TRUE, err |-> "", width |-> finalWidth, height |-> finalHeight,
               len |-> finalWidth * finalHeight * 4,
               data |-> Repeat(0, finalWidth * finalHeight * 4), zero |-> TRUE]
    ELSE [ok |-> TRUE, err |-> "", width |-> finalWidth, height |-> finalHeight,
          len |-> Len(finalBuffer), data |-> finalBuffer, zero |-> FALSE]

\* tiles (a clone of refTiles[id] || defaultTile per tile index), the strips
\* of tilesWide tiles taken from tiles by shift(), and the final raster
SmtMosaic(tiles, tilesWide, tilesHigh, mipmapSize) ==
    \* tiles.shift() yields undefined once tiles is empty, and
    \* joinTilesHorizontally then throws on tiles[x].shift()
    IF tilesWide > 0 /\ tilesHigh > 0 /\ Len(tiles) < tilesWide * tilesHigh
    THEN Failure("TypeError")
    ELSE FinalRaster(
        Concat([y \in 1..tilesHigh |->
            joinTilesHorizontally(
                [x \in 1..tilesWide |-> tiles[(y - 1) * tilesWide + x]], mipmapSize)]),
        mipmapSize * tilesWide, mipmapSize * tilesHigh)

\* tiles.push(this.cloneTile(refTiles[refTileIndex] || defaultTile))
TilesOf(tileIndexes, refTiles, mipmapSize) ==
    Evaluated([k \in 1..Len(tileIndexes) |->
        IF tileIndexes[k] \in DOMAIN refTiles
        THEN refTiles[tileIndexes[k]]
        ELSE DefaultTile(mipmapSize)])

\* parseSMT once numOfTiles has been read from the header
SmtBody(smtBuffer, tileIndexes, numOfTiles, tilesWide, tilesHigh, mipmapSize) ==
    IF numOfTiles < 0 THEN Failure("RangeError")
    ELSE SmtMosaic(
        TilesOf(tileIndexes,
                RefTiles(smtBuffer, tileIndexes, numOfTiles,
                         CalcStride(numOfTiles, smtBuffer.len - SMTHeaderSize),
                         mipmapSize),
                mipmapSize),
        tilesWide, tilesHigh, mipmapSize)

\* parseSMT(smtBuffer, tileIndexes, mapWidthUnits, mapHeightUnits, mipmapSize).
\* mapWidthUnits = mapWidth / 128 is a fraction for the small maps of the
\* model, so the model passes mapWidth and mapHeight and writes
\* mapWidthUnits * 32 as mapWidth / 4.
parseSMT(smtBuffer, tileIndexes, mapWidth, mapHeight, mipmapSize) ==
    IF Truncated(WholeView(smtBuffer), 0, SMTHeaderSize)
    THEN Failure("InputTruncated")
    ELSE SmtBody(smtBuffer, tileIndexes, ReadInt(WholeView(smtBuffer), 20, 4, FALSE),
                 mapWidth \div 4, mapHeight \div 4, mipmapSize)

(***************************************************************************)
(* applyWater                                                              *)
(***************************************************************************)
\* defaultWaterOptions.rgbColor and rgbModifier (the modifier as num / den)
WaterColor == <<33, 35, 77>>
WaterModNum == <<1, 6, 1>>
WaterModDen == <<1, 5, 1>>

Abs(n) == IF n < 0 THEN 0 - n ELSE n

\* a variant of WaterSkips without the early return
WaterNeverSkips(minHeight) == FALSE

\* the early return of applyWater: a map whose minimum is not below 0 is dry
WaterSkips(minHeight) == minHeight >= 0

\* a variant of BelowWater without the comparison: every pixel is under water
AlwaysBelowWater(hv, minHeight, depthRange) == TRUE

\* heightValue < waterLevelPercent, for the 16-bit sample hv (heightValue is
\* hv / 65536) and waterLevelPercent = |minHeight / depthRange|; a zero
\* depthRange makes waterLevelPercent infinite, or NaN when minHeight is 0
\* too, and no number is below NaN
BelowWater(hv, minHeight, depthRange) ==
    IF depthRange = 0 THEN minHeight # 0
    ELSE hv * Abs(depthRange) < 65536 * Abs(minHeight)

\* min(max(((color + old * waterDepth) / 2) * modifier, 0), 255), rounded to
\* the nearest integer when the pixel is stored; waterDepth is
\* heightValue / waterLevelPercent
WaterChannel(c, old, hv, minHeight, depthRange) ==
    LET d   == 65536 * Abs(minHeight)
        num == (WaterColor[c] * d + old * hv * Abs(depthRange)) * WaterModNum[c]
        den == 2 * d * WaterModDen[c]
        val == IF depthRange = 0
               THEN (WaterColor[c] * WaterModNum[c] * 2 + 2 * WaterModDen[c])
                        \div (4 * WaterModDen[c])
               ELSE (2 * num + den) \div (2 * den)
    IN  Min(Max(val, 0), 255)

\* a variant of HeightMapCoord that rounds the quotient up
HeightMapCoordCeil(c, heightMapRatio) == (c + heightMapRatio) \div heightMapRatio

\* heightMapX and heightMapY of applyWater: Math.floor((c + 1) / heightMapRatio)
HeightMapCoord(c, heightMapRatio) == (c + 1) \div heightMapRatio

\* the position in heightMapValues that applyWater reads for pixel (x, y) of
\* a texture `width` pixels wide: heightMapWidth * heightMapY + heightMapX
HeightMapPosition(width, mipmapSize, x, y) ==
    LET heightMapRatio == mipmapSize \div 4
        heightMapWidth == (width \div heightMapRatio) + 1
    IN  heightMapWidth * HeightMapCoord(y, heightMapRatio)
            + HeightMapCoord(x, heightMapRatio)

\* applyWater(options): the bytes of options.textureMap afterwards.  width and
\* height are the texture's, heightMapValues the 16-bit samples.
applyWater(data, width, height, heightMapValues, minHeight, maxHeight, mipmapSize) ==
    IF WaterSkips(minHeight) THEN data
    ELSE LET depthRange == maxHeight - minHeight
         IN  [k \in 1..Len(data) |->
                LET p  == (k - 1) \div 4
                    c  == ((k - 1) % 4) + 1
                    x  == p % width
                    y  == p \div width
                    i  == HeightMapPosition(width, mipmapSize, x, y)
                IN  IF c = 4 \/ i + 1 > Len(heightMapValues) THEN data[k]
                    ELSE IF BelowWater(heightMapValues[i + 1], minHeight, depthRange)
                    THEN WaterChannel(c, data[k], heightMapValues[i + 1],
                                      minHeight, depthRange)
                    ELSE data[k]]

(***************************************************************************)
(* Optional values and strings.  A string is a sequence of characters; an  *)
(* optional value is [some |-> TRUE, v |-> x] or None (JS undefined).      *)
(***************************************************************************)
None == [some |-> FALSE, v |-> <<>>]
NoneInt == [some |-> FALSE, v |-> 0]
Some(x) == [some |-> TRUE, v |-> x]

\* a ?? b
Coalesce(a, b) == IF a.some THEN a ELSE b

\* String(x) in a template literal: undefined prints as "undefined"
TemplateStr(o) ==
    IF o.some THEN o.v ELSE <<"u", "n", "d", "e", "f", "i", "n", "e", "d">>

\* truthiness of an optional string: undefined and "" are falsy
Truthy(o) == o.some /\ o.v # <<>>

\* name.includes(version)
Includes(name, version) ==
    \E i \in 0..(Len(name) - Len(version)) :
        SubSeq(name, i + 1, i + Len(version)) = version

\* the scriptName chain of parseMap
ScriptNameOf(mapInfoPresent, name, version, smfName) ==
    IF mapInfoPresent /\ Truthy(name) /\ Truthy(version) /\ Includes(name.v, version.v)
    THEN name.v
    ELSE IF mapInfoPresent /\ Truthy(name)
    THEN name.v \o <<" ">> \o TemplateStr(version)
    ELSE IF Truthy(smfName) THEN smfName.v
    ELSE <<>>

(***************************************************************************)
(* Inputs                                                                  *)
(***************************************************************************)
\* largest map side of the model, in tiles (one tile is 4 map pixels)
MaxMapTiles == 2
\* largest numOfTiles an SMT header of the model declares
MaxTiles == 2
\* SIGINTs delivered during one run
MaxSigints == 1

MapSides == {4 * k : k \in 0..MaxMapTiles}

\* A well-formed SMF file for a mapWidth x mapHeight map: header, heights,
\* type map, tile-index map, minimap, metal map, then 8 bytes of features.
\* tileIds are the tile indices stored, cut or padded with 0 to the map size.
SmfLayout(mapWidth, mapHeight) ==
    LET nH == (mapWidth + 1) * (mapHeight + 1)
        nT == (mapWidth \div 2) * (mapHeight \div 2)
        nX == (mapWidth \div 4) * (mapHeight \div 4)
        hI == SMFHeaderSize
        tI == hI + 2 * nH
        xI == tI + nT
        mI == xI + 12 + Len(SmtFileNameBytes) + 4 * nX
        eI == mI + MiniMapDxtLen
        fI == eI + nT
    IN  [heightMapIndex |-> hI, typeMapIndex |-> tI, tileIndexMapIndex |-> xI,
         miniMapIndex |-> mI, metalMapIndex |-> eI, featureMapIndex |-> fI,
         len |-> fI + 8, tileCount |-> nX]

SmfFile(mapWidth, mapHeight, minDepth, maxDepth, magicOk, tileIds, variant) ==
    LET l == SmfLayout(mapWidth, mapHeight)
        base == [magicOk |-> magicOk, mapWidth |-> mapWidth, mapHeight |-> mapHeight,
                 minDepth |-> minDepth, maxDepth |-> maxDepth,
                 heightMapIndex |-> l.heightMapIndex, typeMapIndex |-> l.typeMapIndex,
                 tileIndexMapIndex |-> l.tileIndexMapIndex,
                 miniMapIndex |-> l.miniMapIndex, metalMapIndex |-> l.metalMapIndex,
                 featureMapIndex |-> l.featureMapIndex, len |-> l.len,
                 hbase |-> 100, hstep |-> 9000, numOfTiles |-> MaxTiles,
                 tileIds |-> [k \in 1..l.tileCount |->
                                 IF k <= Len(tileIds) THEN tileIds[k] ELSE 0],
                 variant |-> variant]
    IN  CASE variant = "ok"           -> base
          [] variant = "cutHeader"    -> [base EXCEPT !.len = 40]
          [] variant = "cutHeights"   -> [base EXCEPT !.len = l.heightMapIndex + 1]
          [] variant = "cutMiniMap"   -> [base EXCEPT !.len = l.miniMapIndex + 16,
                                                      !.metalMapIndex = l.miniMapIndex + 16,
                                                      !.featureMapIndex = 0]
          [] variant = "typeOutside"  -> [base EXCEPT !.typeMapIndex = l.len + 4]
          [] variant = "metalOutside" -> [base EXCEPT !.metalMapIndex = l.len + 4]
          [] variant = "miniOutside"  -> [base EXCEPT !.miniMapIndex = l.len + 4]
          [] variant = "noMetal"      -> [base EXCEPT !.metalMapIndex = 0]
          [] variant = "miniLast"     -> [base EXCEPT !.metalMapIndex = 0,
                                                      !.featureMapIndex = 0]
          [] OTHER (* "cutTiles" *)   -> [base EXCEPT !.tileIndexMapIndex = l.len - 6]

SmfVariants == {"ok", "cutHeader", "cutHeights", "cutMiniMap", "typeOutside",
                "metalOutside", "miniOutside", "noMetal", "miniLast", "cutTiles"}

\* the SMF files parseSMF is run on
SmfInputs ==
    {SmfFile(w, h, d, 2, m, <<0, 1>>, x) :
        w \in MapSides, h \in MapSides, d \in {-1, 1}, m \in BOOLEAN, x \in SmfVariants}

\* An SMT file: numOfTiles tiles at the given stride, plus `extra` bytes
SmtFile(numOfTiles, stride, extra, fill) ==
    [numOfTiles |-> numOfTiles, len |-> SMTHeaderSize + numOfTiles * stride + extra,
     fill |-> fill]

\* tile files with 4 x 4 and 8 x 8 tiles, whole or with 3 stray bytes, one cut
\* inside its header, and one each with a stride under a DXT block, with
\* 16 x 16 tiles and with the classic 680-byte stride
SmtInputs ==
    {SmtFile(n, st, e, 37) : n \in 0..MaxTiles, st \in {8, 32}, e \in {0, 3}}
    \cup {[numOfTiles |-> 1, len |-> 20, fill |-> 37]}

SmtSpecials == {SmtFile(1, 6, 0, 37), SmtFile(1, 128, 0, 37), SmtFile(1, 680, 0, 37)}

\* tile files of two tiles whose stride is not the record size: 16 x 16 tiles
\* at 130 bytes, 32 x 32 tiles at an inferred stride of 690, and a stride of
\* 6 bytes, under a DXT block
SmtWide == {SmtFile(2, 130, 0, 37), SmtFile(2, 690, 0, 37), SmtFile(2, 6, 0, 37)}

\* tile indices for a map of w x h: as many as the map has tiles or one
\* fewer, all 0 or running through 0 .. MaxTiles (MaxTiles is out of range)
TileIndexSeqs(w, h) ==
    LET n == (w \div 4) * (h \div 4) IN
    {[k \in 1..len |-> IF cyc THEN (k - 1) % (MaxTiles + 1) ELSE 0] :
        len \in {n, n - 1} \cap Nat, cyc \in BOOLEAN}

\* the calls of parseSMT on t for a map of w x h
SmtCallsFor(t, w, h, m) ==
    {[smt |-> t, tileIndexes |-> ix, mapWidth |-> w, mapHeight |-> h,
      mipmapSize |-> m] : ix \in TileIndexSeqs(w, h)}

SmtCalls ==
    UNION {SmtCallsFor(t, w, h, m) :
              t \in SmtInputs, w \in MapSides, h \in MapSides, m \in {4, 8}}
    \cup UNION {SmtCallsFor(t, 4, 4, m) : t \in SmtSpecials, m \in {4, 8}}
    \cup UNION {SmtCallsFor(t, 8, 4, m) : t \in SmtWide, m \in {4, 8}}

(***************************************************************************)
(* The files of an extracted archive.  mapinfo.lua and the .smd file are   *)
(* kept as the fields their parsers read from them.                        *)
(***************************************************************************)
MapInfoFile(parses, name, version, minheight, maxheight, resources) ==
    [parses |-> parses, name |-> name, version |-> version,
     minheight |-> minheight, maxheight |-> maxheight, resources |-> resources]

MapInfoFiles ==
    {MapInfoFile(FALSE, None, None, NoneInt, NoneInt, 0),
     MapInfoFile(TRUE, Some(<<"a", "b">>), Some(<<"b">>), Some(-1), Some(1), 1),
     MapInfoFile(TRUE, Some(<<"a">>), None, NoneInt, NoneInt, 0),
     MapInfoFile(TRUE, None, Some(<<"1">>), Some(1), NoneInt, 1)}

SmdFiles == {[minHeight |-> Some(-2), maxHeight |-> Some(2)],
             [minHeight |-> NoneInt, maxHeight |-> NoneInt]}

\* parseMapInfo(buffer): luaparse.parse throws on a file that is not Lua
parseMapInfo(file) ==
    IF ~file.parses THEN Failure("SyntaxError")
    ELSE [ok |-> TRUE, err |-> "", name |-> file.name, version |-> file.version,
          minheight |-> file.minheight, maxheight |-> file.maxheight,
          resources |-> file.resources]

\* parseSMD(buffer): buffer.toString() throws when the archive has no .smd
parseSMD(file) ==
    IF ~file.some THEN Failure("TypeError")
    ELSE [ok |-> TRUE, err |-> "", minHeight |-> file.v.minHeight,
          maxHeight |-> file.v.maxHeight]

\* the SMF and SMT files of the archives parseMap is run on
ArchiveSmfs ==
    {SmfFile(4, 4, 1, 2, TRUE, <<0>>, "ok"),
     SmfFile(8, 4, -1, 2, TRUE, <<1, 0>>, "ok"),
     SmfFile(4, 4, -1, 2, FALSE, <<MaxTiles>>, "typeOutside"),
     SmfFile(0, 0, 1, 2, TRUE, <<>>, "ok"),
     SmfFile(4, 4, 1, 2, TRUE, <<0>>, "cutHeader")}

ArchiveSmts == {SmtFile(MaxTiles, 8, 0, 37), SmtFile(1, 8, 0, 37)}

\* an archive has a mapinfo.lua, or an .smd file, or neither
ArchiveMetas ==
    {[mapInfo |-> Some(x), smd |-> None] : x \in MapInfoFiles}
    \cup {[mapInfo |-> None, smd |-> Some(x)] : x \in SmdFiles}
    \cup {[mapInfo |-> None, smd |-> None]}

Archives ==
    {[mapInfo |-> m.mapInfo, smd |-> m.smd, smf |-> f, smt |-> t,
      smfName |-> Some(<<"m">>)] :
        m \in ArchiveMetas, f \in ArchiveSmfs, t \in ArchiveSmts}

Configs ==
    [skipSmt : BOOLEAN, water : BOOLEAN, parseResources : BOOLEAN,
     mipmapSize : {4, 8}]

Exts == {".sd7", ".sdz", ".zip", ".SD7", ""}

(***************************************************************************)
(* parseMap as a state machine.  pc is the position of the call; a         *)
(* position in IOWaits is an await of file-system or child-process I/O,    *)
(* the only places where the event loop can run a SIGINT listener.         *)
(***************************************************************************)
VARIABLES
    pc,          \* position of the parseMap call
    proc,        \* "running", "exited" (process.exit) or "killed" (default SIGINT)
    cfg,         \* this.config
    ext,         \* path.parse(mapFilePath).ext
    listeners,   \* how many times sigintHandler is registered on process
    handlers,    \* invocations of sigintHandler that await their cleanup
    sigints,     \* SIGINTs delivered so far
    dirExists,   \* tempArchiveDir exists on disk
    rmFailed,    \* some fs.rm of tempArchiveDir failed
    thrown,      \* the error a step of the try block threw, "" if none
    rejection,   \* the error parseMap rejected with, "" if none
    cleanups,    \* calls of this.cleanup by parseMap that have completed
    calls,       \* the extractors and parsers invoked so far
    archive,     \* what the extractor returned
    mapInfo, smd, smf,
    mosaic,      \* the raster parseSMT returned
    smt,         \* the same raster after the water step
    minHeight, maxHeight, scriptName,
    result,      \* the SpringMap parseMap resolved with
    input, output   \* of a parser run on its own

ctl  == <<pc, proc, listeners, handlers, sigints, dirExists, rmFailed,
          thrown, rejection, cleanups>>
data == <<archive, mapInfo, smd, smf, mosaic, smt, minHeight, maxHeight,
          scriptName, result>>
vars == <<ctl, cfg, ext, calls, data, input, output>>

IOWaits == {"mkdir", "extracting", "resources_io", "cleanup_io", "catch_io"}

Unset == [ok |-> FALSE, err |-> "unset"]

PipelineIdle ==
    /\ pc = "idle" /\ proc = "running"
    /\ cfg = [skipSmt |-> FALSE, water |-> TRUE, parseResources |-> FALSE,
              mipmapSize |-> 4]
    /\ ext = ""
    /\ listeners = 0 /\ handlers = 0 /\ sigints = 0
    /\ dirExists = FALSE /\ rmFailed = FALSE
    /\ thrown = "" /\ rejection = "" /\ cleanups = 0
    /\ calls = {}
    /\ archive = None /\ mapInfo = None /\ smd = None /\ smf = Unset
    /\ mosaic = None /\ smt = None
    /\ minHeight = NoneInt /\ maxHeight = NoneInt /\ scriptName = <<>>
    /\ result = None

\* the state when parseMap(mapFilePath) is called on a MapParser
Init ==
    /\ pc = "start" /\ proc = "running"
    /\ cfg \in Configs
    /\ ext \in Exts
    /\ listeners = 0 /\ handlers = 0 /\ sigints = 0
    /\ dirExists = FALSE /\ rmFailed = FALSE
    /\ thrown = "" /\ rejection = "" /\ cleanups = 0
    /\ calls = {}
    /\ archive = None /\ mapInfo = None /\ smd = None /\ smf = Unset
    /\ mosaic = None /\ smt = None
    /\ minHeight = NoneInt /\ maxHeight = NoneInt /\ scriptName = <<>>
    /\ result = None
    /\ input = None /\ output = Unset

\* variants of the operators below in which a guard of the code is dropped;
\* the properties at the end of the module do not survive them
AnyExtSupported(e) == TRUE
ThrowSkipsCleanup == "rethrow"
AlwaysRunsSmt(c) == TRUE
SmtArgsSwapped(f, c) ==
    [tileIndexes |-> f.tileIndexMap, mapWidth |-> f.mapHeight,
     mapHeight |-> f.mapWidth, mipmapSize |-> c.mipmapSize]

\* fileExt !== ".sd7" && fileExt !== ".sdz" is false
ExtSupported(e) == e = ".sd7" \/ e = ".sdz"

\* fileExt === ".sd7" ? this.extractSd7(..) : this.extractSdz(..)
Extractor(e) == IF e = ".sd7" THEN "extractSd7" ELSE "extractSdz"

\* where control goes when a step inside the try block throws
OnThrow == "catch"

\* if (!this.config.skipSmt)
RunsSmt(c) == ~c.skipSmt

\* what parseMap passes to parseSMT: smf.tileIndexMap, smf.mapWidthUnits,
\* smf.mapHeightUnits (kept as mapWidth and mapHeight) and config.mipmapSize
SmtArgs(f, c) ==
    [tileIndexes |-> f.tileIndexMap, mapWidth |-> f.mapWidth,
     mapHeight |-> f.mapHeight, mipmapSize |-> c.mipmapSize]

\* a step throws e
Throw(e) == pc' = OnThrow /\ thrown' = e

\* process.on("SIGINT", sigintHandler)
Register ==
    /\ proc = "running" /\ pc = "start"
    /\ listeners' = listeners + 1
    /\ pc' = "check"
    /\ UNCHANGED <<proc, handlers, sigints, dirExists, rmFailed, thrown,
                   rejection, cleanups, cfg, ext, calls, data, input, output>>

\* the extension test, then the call of the extractor up to its first await:
\* existsSync(path) false throws "File not found", else fs.mkdir is awaited
CheckExt ==
    /\ proc = "running" /\ pc = "check"
    /\ IF ~ExtSupported(ext)
       THEN Throw("extension is not supported") /\ UNCHANGED calls
       ELSE /\ calls' = calls \cup {Extractor(ext)}
            /\ \E fileExists \in BOOLEAN :
                 IF fileExists THEN pc' = "mkdir" /\ UNCHANGED thrown
                 ELSE Throw("File not found")
    /\ UNCHANGED <<proc, listeners, handlers, sigints, dirExists, rmFailed,
                   rejection, cleanups, cfg, ext, data, input, output>>

\* await fs.mkdir(outPath, {recursive: true}) completes
MkdirDone ==
    /\ proc = "running" /\ pc = "mkdir"
    /\ dirExists' = TRUE
    /\ pc' = "extracting"
    /\ UNCHANGED <<proc, listeners, handlers, sigints, rmFailed, thrown,
                   rejection, cleanups, cfg, ext, calls, data, input, output>>

\* the extraction and extractArchiveFiles complete: the archive's files, or
\* an error (a corrupt archive, no .smf or .smt file in it)
ExtractDone ==
    /\ proc = "running" /\ pc = "extracting"
    /\ \/ \E a \in Archives :
            /\ archive' = Some(a)
            /\ pc' = "meta"
            /\ UNCHANGED thrown
       \/ Throw("extraction failed") /\ UNCHANGED archive
    /\ UNCHANGED <<proc, listeners, handlers, sigints, dirExists, rmFailed,
                   rejection, cleanups, cfg, ext, calls, mapInfo, smd, smf,
                   mosaic, smt, minHeight, maxHeight, scriptName, result,
                   input, output>>

\* if (archive.mapInfo) mapInfo = await this.parseMapInfo(archive.mapInfo)
\* else smd = await this.parseSMD(archive.smd!)
ParseMeta ==
    /\ proc = "running" /\ pc = "meta"
    /\ LET a == archive.v
           name == IF a.mapInfo.some THEN "parseMapInfo" ELSE "parseSMD"
           r == IF a.mapInfo.some THEN parseMapInfo(a.mapInfo.v) ELSE parseSMD(a.smd)
       IN  /\ calls' = calls \cup {name}
           /\ IF ~r.ok THEN Throw(r.err) /\ UNCHANGED <<mapInfo, smd>>
              ELSE /\ pc' = "smf" /\ UNCHANGED thrown
                   /\ IF a.mapInfo.some
                      THEN mapInfo' = Some(r) /\ UNCHANGED smd
                      ELSE smd' = Some(r) /\ UNCHANGED mapInfo
    /\ UNCHANGED <<proc, listeners, handlers, sigints, dirExists, rmFailed,
                   rejection, cleanups, cfg, ext, archive, smf, mosaic, smt,
                   minHeight, maxHeight, scriptName, result, input, output>>

\* const smf = await this.parseSMF(archive.smf)
ParseSMF ==
    /\ proc = "running" /\ pc = "smf"
    /\ calls' = calls \cup {"parseSMF"}
    /\ LET r == parseSMF(SmfBuffer(archive.v.smf))
       IN  IF ~r.ok THEN Throw(r.err) /\ UNCHANGED smf
           ELSE smf' = r /\ pc' = "smt" /\ UNCHANGED thrown
    /\ UNCHANGED <<proc, listeners, handlers, sigints, dirExists, rmFailed,
                   rejection, cleanups, cfg, ext, archive, mapInfo, smd,
                   mosaic, smt, minHeight, maxHeight, scriptName, result,
                   input, output>>

\* if (!this.config.skipSmt) smt = await this.parseSMT(archive.smt, ..)
ParseSMT ==
    /\ proc = "running" /\ pc = "smt"
    /\ IF RunsSmt(cfg)
       THEN /\ calls' = calls \cup {"parseSMT"}
            /\ LET a == SmtArgs(smf, cfg)
                   r == parseSMT(SmtBuffer(archive.v.smt), a.tileIndexes,
                                 a.mapWidth, a.mapHeight, a.mipmapSize)
               IN  IF ~r.ok THEN Throw(r.err) /\ UNCHANGED <<mosaic, smt>>
                   ELSE /\ mosaic' = Some([width |-> r.width, height |-> r.height,
                                           data |-> r.data])
                        /\ smt' = mosaic'
                        /\ pc' = "water" /\ UNCHANGED thrown
       ELSE /\ pc' = "water"
            /\ UNCHANGED <<calls, thrown, mosaic, smt>>
    /\ UNCHANGED <<proc, listeners, handlers, sigints, dirExists, rmFailed,
                   rejection, cleanups, cfg, ext, archive, mapInfo, smd, smf,
                   minHeight, maxHeight, scriptName, result, input, output>>

\* mapInfo?.smf?.minheight ?? smd?.minHeight ?? smf?.minDepth
EffectiveHeight(fromMapInfo, fromSmd, fromSmf) ==
    Coalesce(Coalesce(fromMapInfo, fromSmd), Some(fromSmf))

\* minHeight and maxHeight are computed, then
\* if (this.config.water && smt) this.applyWater({textureMap: smt, ..})
Water ==
    /\ proc = "running" /\ pc = "water"
    /\ LET lo == EffectiveHeight(IF mapInfo.some THEN mapInfo.v.minheight ELSE NoneInt,
                                 IF smd.some THEN smd.v.minHeight ELSE NoneInt,
                                 smf.minDepth)
           hi == EffectiveHeight(IF mapInfo.some THEN mapInfo.v.maxheight ELSE NoneInt,
                                 IF smd.some THEN smd.v.maxHeight ELSE NoneInt,
                                 smf.maxDepth)
       IN  /\ minHeight' = lo
           /\ maxHeight' = hi
           /\ IF cfg.water /\ smt.some
              THEN /\ calls' = calls \cup {"applyWater"}
                   /\ smt' = Some([smt.v EXCEPT !.data =
                          applyWater(smt.v.data, smt.v.width, smt.v.height,
                                     smf.heightMapValues, lo.v, hi.v,
                                     cfg.mipmapSize)])
              ELSE UNCHANGED <<calls, smt>>
    /\ pc' = "script"
    /\ UNCHANGED <<proc, listeners, handlers, sigints, dirExists, rmFailed,
                   thrown, rejection, cleanups, cfg, ext, archive, mapInfo,
                   smd, smf, mosaic, scriptName, result, input, output>>

\* scriptName is chosen, then process.removeListener("SIGINT", sigintHandler)
ScriptName ==
    /\ proc = "running" /\ pc = "script"
    /\ scriptName' = ScriptNameOf(mapInfo.some,
                                  IF mapInfo.some THEN mapInfo.v.name ELSE None,
                                  IF mapInfo.some THEN mapInfo.v.version ELSE None,
                                  archive.v.smfName)
    /\ listeners' = Max(listeners - 1, 0)
    /\ pc' = "resources"
    /\ UNCHANGED <<proc, handlers, sigints, dirExists, rmFailed, thrown,
                   rejection, cleanups, cfg, ext, calls, archive, mapInfo, smd,
                   smf, mosaic, smt, minHeight, maxHeight, result, input, output>>

\* if (this.config.parseResources) resources = await this.parseResources(..):
\* with resource files to read the call awaits the reads, each in its own
\* try/catch; with none it returns {} at once
Resources ==
    /\ proc = "running" /\ pc = "resources"
    /\ IF cfg.parseResources
       THEN /\ calls' = calls \cup {"parseResources"}
            /\ pc' = IF mapInfo.some /\ mapInfo.v.resources > 0
                     THEN "resources_io" ELSE "cleanup"
       ELSE pc' = "cleanup" /\ UNCHANGED calls
    /\ UNCHANGED <<proc, listeners, handlers, sigints, dirExists, rmFailed,
                   thrown, rejection, cleanups, cfg, ext, data, input, output>>

\* the reads of parseResources complete
ResourcesDone ==
    /\ proc = "running" /\ pc = "resources_io"
    /\ pc' = "cleanup"
    /\ UNCHANGED <<proc, listeners, handlers, sigints, dirExists, rmFailed,
                   thrown, rejection, cleanups, cfg, ext, calls, data, input,
                   output>>

\* await fs.rm(tmpDir, {recursive: true, force: true}) completes: the
\* directory is gone, or rm failed on an existing directory and cleanup
\* logged the error
RmCompletes ==
    \E ok \in BOOLEAN :
        /\ ok \/ dirExists
        /\ dirExists' = IF ok THEN FALSE ELSE dirExists
        /\ rmFailed' = (rmFailed \/ ~ok)

\* await this.cleanup(tempArchiveDir) of the try block: fs.rm is started
Cleanup ==
    /\ proc = "running" /\ pc = "cleanup"
    /\ pc' = "cleanup_io"
    /\ UNCHANGED <<proc, listeners, handlers, sigints, dirExists, rmFailed,
                   thrown, rejection, cleanups, cfg, ext, calls, data, input,
                   output>>

CleanupDone ==
    /\ proc = "running" /\ pc = "cleanup_io"
    /\ RmCompletes
    /\ cleanups' = cleanups + 1
    /\ pc' = "return"
    /\ UNCHANGED <<proc, listeners, handlers, sigints, thrown, rejection,
                   cfg, ext, calls, data, input, output>>

\* return {fileName, .., textureMap: smt, resources}
Return ==
    /\ proc = "running" /\ pc = "return"
    /\ result' = Some([scriptName |-> scriptName,
                       minHeight |-> minHeight, maxHeight |-> maxHeight,
                       heightMap |-> smf.heightMap, metalMap |-> smf.metalMap,
                       miniMap |-> smf.miniMap, typeMap |-> smf.typeMap,
                       textureMap |-> smt])
    /\ pc' = "resolved"
    /\ UNCHANGED <<proc, listeners, handlers, sigints, dirExists, rmFailed,
                   thrown, rejection, cleanups, cfg, ext, calls, archive,
                   mapInfo, smd, smf, mosaic, smt, minHeight, maxHeight,
                   scriptName, input, output>>

\* catch (err) { await this.cleanup(tempArchiveDir): fs.rm is started
Catch ==
    /\ proc = "running" /\ pc = "catch"
    /\ pc' = "catch_io"
    /\ UNCHANGED <<proc, listeners, handlers, sigints, dirExists, rmFailed,
                   thrown, rejection, cleanups, cfg, ext, calls, data, input,
                   output>>

CatchCleanupDone ==
    /\ proc = "running" /\ pc = "catch_io"
    /\ RmCompletes
    /\ cleanups' = cleanups + 1
    /\ pc' = "catch_unlisten"
    /\ UNCHANGED <<proc, listeners, handlers, sigints, thrown, rejection,
                   cfg, ext, calls, data, input, output>>

\* process.removeListener("SIGINT", sigintHandler); console.error(err)
CatchUnlisten ==
    /\ proc = "running" /\ pc = "catch_unlisten"
    /\ listeners' = Max(listeners - 1, 0)
    /\ pc' = "rethrow"
    /\ UNCHANGED <<proc, handlers, sigints, dirExists, rmFailed, thrown,
                   rejection, cleanups, cfg, ext, calls, data, input, output>>

\* throw err } : the promise of parseMap is rejected with err
Rethrow ==
    /\ proc = "running" /\ pc = "rethrow"
    /\ rejection' = thrown
    /\ pc' = "rejected"
    /\ UNCHANGED <<proc, listeners, handlers, sigints, dirExists, rmFailed,
                   thrown, cleanups, cfg, ext, calls, data, input, output>>

\* A SIGINT arrives while parseMap awaits I/O.  With sigintHandler registered
\* the handler runs and awaits its cleanup; with no listener left the default
\* action ends the process, whatever fs.rm was doing
Sigint ==
    /\ proc = "running" /\ pc \in IOWaits
    /\ sigints < MaxSigints
    /\ sigints' = sigints + 1
    /\ IF listeners > 0
       THEN /\ handlers' = handlers + 1
            /\ UNCHANGED <<proc, dirExists>>
       ELSE /\ proc' = "killed"
            /\ \E gone \in BOOLEAN :
                 /\ gone => (pc \in {"cleanup_io", "catch_io"} \/ handlers > 0)
                 /\ dirExists' = (dirExists /\ ~gone)
            /\ UNCHANGED handlers
    /\ UNCHANGED <<pc, listeners, rmFailed, thrown, rejection, cleanups, cfg,
                   ext, calls, data, input, output>>

\* sigint(tmpDir): the cleanup of a handler completes, then process.exit()
SigintExit ==
    /\ proc = "running" /\ handlers > 0
    /\ RmCompletes
    /\ proc' = "exited"
    /\ UNCHANGED <<pc, listeners, handlers, sigints, thrown, rejection,
                   cleanups, cfg, ext, calls, data, input, output>>

Next ==
    \/ Register \/ CheckExt \/ MkdirDone \/ ExtractDone
    \/ ParseMeta \/ ParseSMF \/ ParseSMT \/ Water \/ ScriptName
    \/ Resources \/ ResourcesDone \/ Cleanup \/ CleanupDone \/ Return
    \/ Catch \/ CatchCleanupDone \/ CatchUnlisten \/ Rethrow
    \/ Sigint \/ SigintExit

Spec == Init /\ [][Next]_vars

(***************************************************************************)
(* parseSMF and parseSMT run on their own                                  *)
(***************************************************************************)
InitSMF == PipelineIdle /\ input \in SmfInputs /\ output = Unset

RunParseSMF ==
    /\ pc = "idle"
    /\ output' = parseSMF(SmfBuffer(input))
    /\ pc' = "returned"
    /\ UNCHANGED <<proc, listeners, handlers, sigints, dirExists, rmFailed,
                   thrown, rejection, cleanups, cfg, ext, calls, data, input>>

NextSMF == RunParseSMF

SpecSMF == InitSMF /\ [][NextSMF]_vars

InitSMT == PipelineIdle /\ input \in SmtCalls /\ output = Unset

RunParseSMT ==
    /\ pc = "idle"
    /\ output' = parseSMT(SmtBuffer(input.smt), input.tileIndexes,
                          input.mapWidth, input.mapHeight, input.mipmapSize)
    /\ pc' = "returned"
    /\ UNCHANGED <<proc, listeners, handlers, sigints, dirExists, rmFailed,
                   thrown, rejection, cleanups, cfg, ext, calls, data, input>>

NextSMT == RunParseSMT

SpecSMT == InitSMT /\ [][NextSMT]_vars

(***************************************************************************)
(* applyWater run on its own                                               *)
(***************************************************************************)
\* heights of the model run from -MaxWaterHeight to MaxWaterHeight
MaxWaterHeight == 2

\* textures of 2 x 1 and 1 x 2 pixels, height vectors that cover the texture
\* and one that is too short, every minimum and maximum height
WaterInputs ==
    {[data |-> [k \in 1..8 |-> (k * f) % 256], width |-> d[1], height |-> d[2],
      heightMapValues |-> hs, minHeight |-> lo, maxHeight |-> hi,
      mipmapSize |-> m] :
        f \in {0, 37}, d \in {<<2, 1>>, <<1, 2>>},
        hs \in {<<0, 100, 20000, 40000, 65535, 7, 30000, 9, 100>>, <<0>>},
        lo \in (0 - MaxWaterHeight)..MaxWaterHeight,
        hi \in (0 - MaxWaterHeight)..MaxWaterHeight,
        m \in {4, 8}}

InitWater == PipelineIdle /\ input \in WaterInputs /\ output = Unset

RunApplyWater ==
    /\ pc = "idle"
    /\ output' = [ok |-> TRUE,
                  data |-> applyWater(input.data, input.width, input.height,
                                      input.heightMapValues, input.minHeight,
                                      input.maxHeight, input.mipmapSize)]
    /\ pc' = "returned"
    /\ UNCHANGED <<proc, listeners, handlers, sigints, dirExists, rmFailed,
                   thrown, rejection, cleanups, cfg, ext, calls, data, input>>

NextWater == RunApplyWater

SpecWater == InitWater /\ [][NextWater]_vars

(***************************************************************************)
(* The height sample of one pixel of applyWater, for the texture of a map  *)
(***************************************************************************)
\* a map of mapWidth x mapHeight, a mipmap size, and a pixel (x, y) of the
\* texture of mipmapSize * mapWidth / 4 by mipmapSize * mapHeight / 4 pixels
SampleInputs ==
    UNION {[mapWidth : {w}, mapHeight : {h}, mipmapSize : {m},
            x : 0..((m * w) \div 4 - 1), y : 0..((m * h) \div 4 - 1)] :
                w \in MapSides \ {0}, h \in MapSides \ {0}, m \in {4, 8, 16, 32}}

InitSample == PipelineIdle /\ input \in SampleInputs /\ output = Unset

RunSampleHeight ==
    /\ pc = "idle"
    /\ output' = [ok |-> TRUE,
                  heightMapX |-> HeightMapCoord(input.x, input.mipmapSize \div 4),
                  heightMapY |-> HeightMapCoord(input.y, input.mipmapSize \div 4),
                  position |-> HeightMapPosition(
                      (input.mipmapSize * input.mapWidth) \div 4,
                      input.mipmapSize, input.x, input.y)]
    /\ pc' = "returned"
    /\ UNCHANGED <<proc, listeners, handlers, sigints, dirExists, rmFailed,
                   thrown, rejection, cleanups, cfg, ext, calls, data, input>>

NextSample == RunSampleHeight

SpecSample == InitSample /\ [][NextSample]_vars

(***************************************************************************)
(* calculateMipChainSize of the DDS cubemap parser                         *)
(***************************************************************************)
\* blockSize: 8 for DXT1, 16 for DXT3 and DXT5, 0 for any other format code
BlockSizeOf(formatCode) ==
    IF formatCode = "DXT1" THEN 8
    ELSE IF formatCode \in {"DXT3", "DXT5"} THEN 16 ELSE 0

\* bpp: 3 for a bitCount of 24, 1 for 8, and 4 for anything else
BytesPerPixel(bitCount) ==
    IF bitCount = 24 THEN 3 ELSE IF bitCount = 8 THEN 1 ELSE 4

\* the bytes one iteration of the loop adds for a level of w x h
LevelBytes(w, h, blockSize, bpp) ==
    IF blockSize > 0
    THEN Max(1, (w + 3) \div 4) * Max(1, (h + 3) \div 4) * blockSize
    ELSE w * h * bpp

\* the loop of calculateMipChainSize with `levels` iterations to go: w and h
\* are halved, and kept at 1 or more, after each level
RECURSIVE MipLoop(_, _, _, _, _)
MipLoop(w, h, levels, blockSize, bpp) ==
    IF levels <= 0 THEN 0
    ELSE LevelBytes(w, h, blockSize, bpp)
         + MipLoop(Max(1, w \div 2), Max(1, h \div 2), levels - 1, blockSize, bpp)

calculateMipChainSize(width, height, mipCount, formatCode, bitCount) ==
    MipLoop(width, height, Max(1, mipCount), BlockSizeOf(formatCode),
            IF BlockSizeOf(formatCode) = 0 THEN BytesPerPixel(bitCount) ELSE 4)

\* faces of 1 .. MaxFaceSide pixels a side, 0 .. MaxMipCount mip levels
MaxFaceSide == 6
MaxMipCount == 4

InitMipChain ==
    /\ PipelineIdle /\ output = Unset
    /\ input \in [width : 1..MaxFaceSide, height : 1..MaxFaceSide,
                   mipCount : 0..MaxMipCount,
                   formatCode : {"DXT1", "DXT3", "DXT5", "none"},
                   bitCount : {0, 8, 16, 24, 32}]

RunCalculateMipChainSize ==
    /\ pc = "idle"
    /\ output' = [ok |-> TRUE,
                  totalBytes |-> calculateMipChainSize(input.width, input.height,
                      input.mipCount, input.formatCode, input.bitCount)]
    /\ pc' = "returned"
    /\ UNCHANGED <<proc, listeners, handlers, sigints, dirExists, rmFailed,
                   thrown, rejection, cleanups, cfg, ext, calls, data, input>>

NextMipChain == RunCalculateMipChainSize

SpecMipChain == InitMipChain /\ [][NextMipChain]_vars

(***************************************************************************)
(* Several parseMap calls in one process.  Here pc, thrown and rejection   *)
(* hold one value per call, listeners is the set of SIGINT listeners on    *)
(* process (a call's sigintHandler is named by the call, listener 0 is a    *)
(* listener of other code), and dirExists holds, per temp directory,       *)
(* whether it exists and which calls' extracted files are in it.  Calls    *)
(* interleave at their awaits of I/O; no SIGINT is delivered.              *)
(***************************************************************************)
\* parseMap calls of the model
MaxCalls == 2
Callers == 1..MaxCalls

\* the SIGINT listeners registered by other code of the process
OtherListeners == {0}

\* the archives of the calls: both extractors and an unsupported extension
CallExts == {".sd7", ".sdz", ".zip"}

\* a variant of Unlisten that removes every listener of the process
UnlistenAll(ls, c) == {}

\* process.removeListener("SIGINT", sigintHandler) of call c
Unlisten(ls, c) == ls \ {c}

\* tempArchiveDir = path.join(os.tmpdir(), fileName): calls whose files have
\* the same stem share directory 1, else call c has directory c
TempDirOf(c) == IF input.sameStem THEN 1 ELSE c

NoDir == [exists |-> FALSE, files |-> {}]

InitCalls ==
    /\ proc = "running"
    /\ cfg \in {[skipSmt |-> FALSE, water |-> TRUE, parseResources |-> r,
                  mipmapSize |-> 4] : r \in BOOLEAN}
    /\ input \in [sameStem : BOOLEAN, ext : [Callers -> CallExts],
                   others : {{}, OtherListeners}]
    /\ pc = [c \in Callers |-> "start"]
    /\ thrown = [c \in Callers |-> ""]
    /\ rejection = [c \in Callers |-> ""]
    /\ listeners = input.others
    /\ dirExists = [d \in Callers |-> NoDir]
    /\ ext = "" /\ handlers = 0 /\ sigints = 0 /\ rmFailed = FALSE /\ cleanups = 0
    /\ calls = {}
    /\ archive = None /\ mapInfo = None /\ smd = None /\ smf = Unset
    /\ mosaic = None /\ smt = None
    /\ minHeight = NoneInt /\ maxHeight = NoneInt /\ scriptName = <<>>
    /\ result = None /\ output = Unset

\* call c moves to position p
CallGoes(c, p) == pc' = [pc EXCEPT ![c] = p]
\* a step of call c inside the try block throws e: the catch block calls
\* this.cleanup and awaits it
CallThrows(c, e) ==
    /\ pc' = [pc EXCEPT ![c] = "catch_io"]
    /\ thrown' = [thrown EXCEPT ![c] = e]

\* process.on("SIGINT", sigintHandler)
CallRegister(c) ==
    /\ pc[c] = "start"
    /\ listeners' = listeners \cup {c}
    /\ CallGoes(c, "check")
    /\ UNCHANGED <<proc, handlers, sigints, dirExists, rmFailed, thrown,
                   rejection, cleanups, cfg, ext, calls, data, input, output>>

\* the extension test and the extractor up to its await of fs.mkdir
CallCheckExt(c) ==
    /\ pc[c] = "check"
    /\ IF ~ExtSupported(input.ext[c])
       THEN CallThrows(c, "extension is not supported")
       ELSE \E fileExists \in BOOLEAN :
                IF fileExists THEN CallGoes(c, "mkdir") /\ UNCHANGED thrown
                ELSE CallThrows(c, "File not found")
    /\ UNCHANGED <<proc, listeners, handlers, sigints, dirExists, rmFailed,
                   rejection, cleanups, cfg, ext, calls, data, input, output>>

\* await fs.mkdir(outPath, {recursive: true}) completes
CallMkdirDone(c) ==
    /\ pc[c] = "mkdir"
    /\ dirExists' = [dirExists EXCEPT ![TempDirOf(c)].exists = TRUE]
    /\ CallGoes(c, "extracting")
    /\ UNCHANGED <<proc, listeners, handlers, sigints, rmFailed, thrown,
                   rejection, cleanups, cfg, ext, calls, data, input, output>>

\* the extraction into outPath completes: the files of the archive are in
\* the directory; an extraction whose directory was removed meanwhile makes
\* it again or fails
CallExtractDone(c) ==
    /\ pc[c] = "extracting"
    /\ \E fails \in {FALSE, ~dirExists[TempDirOf(c)].exists} :
          IF fails
          THEN CallThrows(c, "extract") /\ UNCHANGED dirExists
          ELSE /\ dirExists' = [dirExists EXCEPT ![TempDirOf(c)] =
                       [exists |-> TRUE, files |-> @.files \cup {c}]]
               /\ CallGoes(c, "reading") /\ UNCHANGED thrown
    /\ UNCHANGED <<proc, listeners, handlers, sigints, rmFailed,
                   rejection, cleanups, cfg, ext, calls, data, input, output>>

\* extractArchiveFiles has read its files (a missing file throws), the
\* parsers have run on the buffers and parseMap has removed its SIGINT
\* listener; it then awaits parseResources or cleanup
CallReadDone(c) ==
    /\ pc[c] = "reading"
    /\ IF c \notin dirExists[TempDirOf(c)].files
       THEN CallThrows(c, "TypeError") /\ UNCHANGED listeners
       ELSE \E parsed \in BOOLEAN :
                IF parsed
                THEN /\ listeners' = Unlisten(listeners, c)
                     /\ CallGoes(c, IF cfg.parseResources THEN "resources_io"
                                    ELSE "cleanup_io")
                     /\ UNCHANGED thrown
                ELSE CallThrows(c, "parse") /\ UNCHANGED listeners
    /\ UNCHANGED <<proc, handlers, sigints, dirExists, rmFailed,
                   rejection, cleanups, cfg, ext, calls, data, input, output>>

\* parseResources has read the resource files, each in its own try block
CallResourcesDone(c) ==
    /\ pc[c] = "resources_io"
    /\ CallGoes(c, "cleanup_io")
    /\ UNCHANGED <<proc, listeners, handlers, sigints, dirExists, rmFailed, thrown,
                   rejection, cleanups, cfg, ext, calls, data, input, output>>

\* await this.cleanup(tempArchiveDir) of the try block completes: fs.rm has
\* removed the directory with all it holds, and parseMap resolves
CallCleanupDone(c) ==
    /\ pc[c] = "cleanup_io"
    /\ dirExists' = [dirExists EXCEPT ![TempDirOf(c)] = NoDir]
    /\ CallGoes(c, "resolved")
    /\ UNCHANGED <<proc, listeners, handlers, sigints, rmFailed, thrown,
                   rejection, cleanups, cfg, ext, calls, data, input, output>>

\* the catch block: cleanup completes, the listener is removed, the error is
\* thrown again
CallCatchDone(c) ==
    /\ pc[c] = "catch_io"
    /\ dirExists' = [dirExists EXCEPT ![TempDirOf(c)] = NoDir]
    /\ listeners' = Unlisten(listeners, c)
    /\ rejection' = [rejection EXCEPT ![c] = thrown[c]]
    /\ CallGoes(c, "rejected")
    /\ UNCHANGED <<proc, handlers, sigints, rmFailed, thrown,
                   cleanups, cfg, ext, calls, data, input, output>>

NextCalls ==
    \E c \in Callers :
        \/ CallRegister(c) \/ CallCheckExt(c) \/ CallMkdirDone(c)
        \/ CallExtractDone(c) \/ CallReadDone(c) \/ CallResourcesDone(c)
        \/ CallCleanupDone(c) \/ CallCatchDone(c)

SpecCalls == InitCalls /\ [][NextCalls]_vars

(***************************************************************************)
(* The scriptName chain of parseMap run on its own                         *)
(***************************************************************************)
\* mapInfo parsed or not, its name and version (absent, empty or not), and
\* the stem of the .smf file
ScriptInputs ==
    [mapInfo : BOOLEAN,
     name    : {None, Some(<<>>), Some(<<"a">>), Some(<<"a", "b">>), Some(<<"a", " ", "b">>)},
     version : {None, Some(<<>>), Some(<<"b">>), Some(<<"c">>)},
     smfName : {None, Some(<<"m">>)}]

InitScript == PipelineIdle /\ input \in ScriptInputs /\ output = Unset

RunScriptName ==
    /\ pc = "idle"
    /\ output' = [ok |-> TRUE,
                  v  |-> ScriptNameOf(input.mapInfo, input.name, input.version,
                                      input.smfName)]
    /\ pc' = "returned"
    /\ UNCHANGED <<proc, listeners, handlers, sigints, dirExists, rmFailed,
                   thrown, rejection, cleanups, cfg, ext, calls, data, input>>

NextScript == RunScriptName

SpecScript == InitScript /\ [][NextScript]_vars

(***************************************************************************)
(* parseMapInfo on the syntax tree luaparse gives for mapinfo.lua.  Nodes  *)
(* are records with the fields luaparse gives them; JavaScript values are  *)
(* records [kind, v], arrays [kind, items] and objects [kind, props].      *)
(***************************************************************************)
StringLiteral(s) == [type |-> "StringLiteral", value |-> s]
NumericLiteral(n) == [type |-> "NumericLiteral", value |-> n]
BooleanLiteral(b) == [type |-> "BooleanLiteral", value |-> b]
UnaryMinus(e) == [type |-> "UnaryExpression", operator |-> "-", argument |-> e]
TableConstructor(fs) == [type |-> "TableConstructorExpression", fields |-> fs]
\* key = value, a positional value, and [key] = value
TableKeyString(k, e) == [type |-> "TableKeyString", key |-> [name |-> k], value |-> e]
TableValue(e) == [type |-> "TableValue", value |-> e]
TableKey(k, e) == [type |-> "TableKey", key |-> k, value |-> e]
\* local mapinfo = <init>, and return <arguments>
LocalStatement(es) == [type |-> "LocalStatement", init |-> es]
ReturnStatement(es) == [type |-> "ReturnStatement", arguments |-> es]

\* field.value.value of a literal, as a JavaScript value
PrimOf(e) ==
    [kind |-> CASE e.type = "StringLiteral" -> "string"
                [] e.type = "NumericLiteral" -> "number"
                [] OTHER -> "boolean",
     v |-> e.value]
\* -field.value.argument.value
NegOf(e) == [kind |-> "number", v |-> 0 - e.argument.value]
\* an index of an array that was never assigned
Hole == [kind |-> "empty"]
JsArray(items) == [kind |-> "array", items |-> items]
JsObject(props) == [kind |-> "object", props |-> props]

IsLiteral(e) == e.type \in {"StringLiteral", "NumericLiteral", "BooleanLiteral"}
IsNegNumber(e) == e.type = "UnaryExpression" /\ e.argument.type = "NumericLiteral"
IsTable(e) == e.type = "TableConstructorExpression"

\* obj[k] = v
SetProp(obj, k, v) == [x \in (DOMAIN obj) \cup {k} |-> IF x = k THEN v ELSE obj[x]]
\* arr[i] = v for an index i >= 0: the array grows, with holes, to hold it
SetIndex(arr, i, v) ==
    [k \in 1..Max(Len(arr), i + 1) |->
        IF k = i + 1 THEN v ELSE IF k <= Len(arr) THEN arr[k] ELSE Hole]

\* parseMapInfoFields(fields): FieldsLoop is its loop with arr and obj as
\* they stand, and its end: arr when it has a length, else obj
RECURSIVE parseMapInfoFields(_)
RECURSIVE FieldsLoop(_, _, _)
FieldsLoop(fields, arr, obj) ==
    IF fields = <<>>
    THEN (IF Len(arr) > 0 THEN JsArray(arr) ELSE JsObject(obj))
    ELSE LET field == Head(fields)
             e == field.value
         IN  CASE field.type = "TableKeyString" ->
                    FieldsLoop(Tail(fields), arr,
                        IF IsLiteral(e) THEN SetProp(obj, field.key.name, PrimOf(e))
                        ELSE IF IsNegNumber(e) THEN SetProp(obj, field.key.name, NegOf(e))
                        ELSE IF IsTable(e)
                        THEN SetProp(obj, field.key.name, parseMapInfoFields(e.fields))
                        ELSE obj)
               [] field.type = "TableValue" ->
                    FieldsLoop(Tail(fields),
                        IF IsLiteral(e) THEN Append(arr, PrimOf(e)) ELSE arr,
                        obj)
               [] OTHER (* TableKey *) ->
                    FieldsLoop(Tail(fields),
                        IF IsLiteral(e)
                        THEN (IF field.key.type = "NumericLiteral"
                              THEN SetIndex(arr, field.key.value, PrimOf(e)) ELSE arr)
                        ELSE IF IsNegNumber(e)
                        THEN (IF field.key.type = "NumericLiteral"
                              THEN SetIndex(arr, field.key.value, NegOf(e)) ELSE arr)
                        ELSE IF IsTable(e)
                        THEN Append(arr, parseMapInfoFields(e.fields))
                        ELSE arr,
                        obj)
parseMapInfoFields(fields) == FieldsLoop(fields, <<>>, <<>>)

\* parseMapInfo(buffer) on what luaparse.parse gives for the buffer: the
\* table is looked for in the init of the first statement, so a first
\* statement without init, or with no table in it, ends in a TypeError
parseMapInfoChunk(chunk) ==
    IF ~chunk.parses THEN Failure("SyntaxError")
    ELSE IF chunk.body = <<>> THEN Failure("TypeError")
    ELSE IF "init" \notin DOMAIN chunk.body[1] THEN Failure("TypeError")
    ELSE IF SelectSeq(chunk.body[1].init, IsTable) = <<>> THEN Failure("TypeError")
    ELSE [ok |-> TRUE, err |-> "",
          v |-> parseMapInfoFields(SelectSeq(chunk.body[1].init, IsTable)[1].fields)]

\* longest table of the model, in fields
MaxFields == 2

\* the fields the tables of the model are made of
FieldPool ==
    {TableKeyString("extractorRadius", NumericLiteral(100)),
     TableKeyString("name", StringLiteral("a")),
     TableKeyString("notDeformable", BooleanLiteral(FALSE)),
     TableKeyString("minheight", UnaryMinus(NumericLiteral(5))),
     TableKeyString("smf", TableConstructor(
         <<TableKeyString("minheight", UnaryMinus(NumericLiteral(5))),
           TableKeyString("maxheight", NumericLiteral(9))>>)),
     TableKeyString("teams", TableConstructor(
         <<TableValue(NumericLiteral(1)), TableValue(NumericLiteral(2))>>)),
     TableValue(StringLiteral("x")),
     TableKey(NumericLiteral(1), StringLiteral("y"))}

FieldSeqs == UNION {[1..n -> FieldPool] : n \in 0..MaxFields}

\* mapinfo.lua files: "local mapinfo = { .. }" and "return { .. }", and one
\* that is not Lua
MapInfoChunks ==
    {[parses |-> TRUE, body |-> <<LocalStatement(<<TableConstructor(fs)>>)>>] :
        fs \in FieldSeqs}
    \cup {[parses |-> TRUE, body |-> <<ReturnStatement(<<TableConstructor(fs)>>)>>] :
        fs \in FieldSeqs}
    \cup {[parses |-> FALSE, body |-> <<>>]}

InitMapInfo == PipelineIdle /\ input \in MapInfoChunks /\ output = Unset

RunParseMapInfo ==
    /\ pc = "idle"
    /\ output' = parseMapInfoChunk(input)
    /\ pc' = "returned"
    /\ UNCHANGED <<proc, listeners, handlers, sigints, dirExists, rmFailed,
                   thrown, rejection, cleanups, cfg, ext, calls, data, input>>

NextMapInfo == RunParseMapInfo

SpecMapInfo == InitMapInfo /\ [][NextMapInfo]_vars

(***************************************************************************)
(* cubemapToEquirectangular: the dimensions of the image it returns        *)
(***************************************************************************)
\* a variant of OutputHeight that rounds the half up
OutputHeightRoundedUp(outputWidth) == (outputWidth + 1) \div 2

\* outputHeight = Math.floor(outputWidth / 2)
OutputHeight(outputWidth) == outputWidth \div 2

\* new Jimp(outputWidth, outputHeight), which the pixel loop fills and the
\* function returns
cubemapToEquirectangular(outputWidth) ==
    [ok |-> TRUE, width |-> outputWidth, height |-> OutputHeight(outputWidth)]

\* widest output of the model
MaxOutputWidth == 64

InitCubemap ==
    /\ PipelineIdle /\ output = Unset
    /\ input \in [outputWidth : 1..MaxOutputWidth, faceSize : {1, 4}]

RunCubemap ==
    /\ pc = "idle"
    /\ output' = cubemapToEquirectangular(input.outputWidth)
    /\ pc' = "returned"
    /\ UNCHANGED <<proc, listeners, handlers, sigints, dirExists, rmFailed,
                   thrown, rejection, cleanups, cfg, ext, calls, data, input>>

NextCubemap == RunCubemap

SpecCubemap == InitCubemap /\ [][NextCubemap]_vars

(***************************************************************************)
(* The pixel loop of cubemapToEquirectangular.  Angles are multiples of    *)
(* pi / 4, so every sine, cosine and product of the loop is 0 or a square  *)
(* root: a number is [s, q, d] with s its sign, q four times its square    *)
(* (0, 1, 2 or 4), and d the side on which floating-point rounding leaves  *)
(* the computed value (-1 below, 0 exact, 1 above the true value).         *)
(***************************************************************************)
Num(s, q, d) == [s |-> s, q |-> q, d |-> d]

\* Math.sin and Math.cos of k * pi / 4
SinOf(k) ==
    CASE k % 8 \in {0, 4} -> Num(0, 0, 0)
      [] k % 8 \in {1, 3} -> Num(1, 2, 0)
      [] k % 8 = 2        -> Num(1, 4, 0)
      [] k % 8 \in {5, 7} -> Num(-1, 2, 0)
      [] OTHER            -> Num(-1, 4, 0)
CosOf(k) == SinOf(k + 2)

\* -a * b, computed with rounding d
NegTimes(a, b, d) == Num(0 - a.s * b.s, (a.q * b.q) \div 4, d)

\* v > 0 and Math.abs(v) as a key that orders the computed values
IsPositive(v) == v.s = 1 \/ (v.s = 0 /\ v.d = 1)
AbsKey(v) == IF v.s = 0 THEN Abs(v.d) ELSE 8 * v.q + v.s * v.d

\* n / Math.abs(m), or -n / Math.abs(m) when neg: the sign and, as a / b,
\* the square of the quotient
Ratio(n, m, neg) ==
    [sgn |-> IF neg THEN 0 - n.s ELSE n.s, a |-> n.q, b |-> m.q]

\* cartesianToCubemapUV(x, y, z): the face and the coordinates uc, vc
cartesianToCubemapUV(x, y, z) ==
    LET absX == AbsKey(x)
        absY == AbsKey(y)
        absZ == AbsKey(z)
    IN  IF IsPositive(x) /\ absX >= absY /\ absX >= absZ
        THEN [faceIndex |-> 0, uc |-> Ratio(z, x, TRUE), vc |-> Ratio(y, x, FALSE)]
        ELSE IF ~IsPositive(x) /\ absX >= absY /\ absX >= absZ
        THEN [faceIndex |-> 1, uc |-> Ratio(z, x, FALSE), vc |-> Ratio(y, x, FALSE)]
        ELSE IF IsPositive(y) /\ absY >= absX /\ absY >= absZ
        THEN [faceIndex |-> 2, uc |-> Ratio(x, y, FALSE), vc |-> Ratio(z, y, FALSE)]
        ELSE IF ~IsPositive(y) /\ absY >= absX /\ absY >= absZ
        THEN [faceIndex |-> 3, uc |-> Ratio(x, y, FALSE), vc |-> Ratio(z, y, TRUE)]
        ELSE IF IsPositive(z) /\ absZ >= absX /\ absZ >= absY
        THEN [faceIndex |-> 4, uc |-> Ratio(x, z, FALSE), vc |-> Ratio(y, z, FALSE)]
        ELSE [faceIndex |-> 5, uc |-> Ratio(x, z, TRUE), vc |-> Ratio(y, z, FALSE)]

\* is k <= 0.5 * (c + 1) * faceSize, for c = sgn * sqrt(a / b)?
AtMostFaceCoord(k, c, faceSize) ==
    LET m == 2 * k - faceSize
    IN  IF c.sgn > 0 THEN m <= 0 \/ m * m * c.b <= faceSize * faceSize * c.a
        ELSE IF c.sgn = 0 THEN m <= 0
        ELSE m < 0 /\ m * m * c.b >= faceSize * faceSize * c.a

\* is 0.5 * (c + 1) * faceSize the whole number k?
IsFaceCoord(k, c, faceSize) ==
    LET m == 2 * k - faceSize
    IN  /\ m * m * c.b = faceSize * faceSize * c.a
        /\ (m > 0 /\ c.sgn > 0) \/ (m < 0 /\ c.sgn < 0) \/ (m = 0 /\ c.a = 0)

\* Math.min(Math.floor(faceU * faceSize), faceSize - 1) for faceU =
\* 0.5 * (c + 1).  Where the product is a whole number k > 0, a computed
\* value rounded below it floors to k - 1 (`low`); the quotient c is never
\* under -1, so the floor is never under 0.
FacePixel(c, faceSize, low) ==
    LET k == CHOOSE j \in 0..faceSize :
                 /\ AtMostFaceCoord(j, c, faceSize)
                 /\ \A i \in 0..faceSize : AtMostFaceCoord(i, c, faceSize) => i <= j
        floor == IF low /\ k > 0 /\ IsFaceCoord(k, c, faceSize) THEN k - 1 ELSE k
    IN  Min(floor, faceSize - 1)

\* one iteration of the pixel loop: the face and the face pixel sampled for
\* output pixel (x, y); theta is x * 2 pi / outputWidth, phi is
\* y * pi / outputHeight, in units of pi / 4
SamplePixel(outputWidth, faceSize, x, y, d, low) ==
    LET theta == (8 * x) \div outputWidth
        phi   == (4 * y) \div OutputHeight(outputWidth)
        uv == cartesianToCubemapUV(
                  NegTimes(SinOf(phi), SinOf(theta), d[1]),
                  [CosOf(phi) EXCEPT !.d = d[2]],
                  NegTimes(SinOf(phi), CosOf(theta), d[3]))
    IN  [ok |-> TRUE, faceIndex |-> uv.faceIndex,
         pixelU |-> FacePixel(uv.uc, faceSize, low[1]),
         pixelV |-> FacePixel(uv.vc, faceSize, low[2])]

\* outputs of 2 x 1, 4 x 2 and 8 x 4 pixels (the angles of their pixels are
\* multiples of pi / 4), faces of 1, 2 and 4 pixels a side
SampleCalls ==
    UNION {[outputWidth : {w}, faceSize : {1, 2, 4},
            x : 0..(w - 1), y : 0..(OutputHeight(w) - 1)] : w \in {2, 4, 8}}

InitEquirect == PipelineIdle /\ input \in SampleCalls /\ output = Unset

RunSamplePixel ==
    /\ pc = "idle"
    /\ \E d \in [1..3 -> {-1, 0, 1}], low \in [1..2 -> BOOLEAN] :
          output' = SamplePixel(input.outputWidth, input.faceSize,
                                input.x, input.y, d, low)
    /\ pc' = "returned"
    /\ UNCHANGED <<proc, listeners, handlers, sigints, dirExists, rmFailed,
                   thrown, rejection, cleanups, cfg, ext, calls, data, input>>

NextEquirect == RunSamplePixel

SpecEquirect == InitEquirect /\ [][NextEquirect]_vars

(***************************************************************************)
(* The DXT1 decoder run on its own: the palette of two colour values, one  *)
(* block, and a whole image                                                *)
(***************************************************************************)
\* 16-bit colour values: black, the pure channels, white, and mixed ones
Endpoints == {0, 1, 31, 2016, 63488, 63489, 65535, 33808, 4660, 43981, 31727, 63454}

InitLookup ==
    /\ PipelineIdle /\ output = Unset
    /\ input \in [colorValue0 : Endpoints, colorValue1 : Endpoints]

RunGenerateLookup ==
    /\ pc = "idle"
    /\ output' = [ok |-> TRUE,
                  lookup |-> generateDXT1Lookup(input.colorValue0, input.colorValue1)]
    /\ pc' = "returned"
    /\ UNCHANGED <<proc, listeners, handlers, sigints, dirExists, rmFailed,
                   thrown, rejection, cleanups, cfg, ext, calls, data, input>>

NextLookup == RunGenerateLookup

SpecLookup == InitLookup /\ [][NextLookup]_vars

\* index bytes: all pixels 0, all 3, and 0 1 2 3 in either order
IndexBytes == {0, 27, 228, 255}

\* the 8 bytes of a block: two colour values, little-endian, and 4 index bytes
BlockBuffer(b) ==
    [len |-> DXT1BlockSize, fill |-> 0,
     segs |-> << [at |-> 0, bytes |-> LE16(b.c0) \o LE16(b.c1) \o b.idx] >>]

InitBlock ==
    /\ PipelineIdle /\ output = Unset
    /\ input \in [c0 : {0, 2016, 63488, 65535}, c1 : {0, 2016, 63488, 65535},
                   idx : [1..4 -> IndexBytes]]

RunDecompressBlock ==
    /\ pc = "idle"
    /\ output' = [ok |-> TRUE,
                  data |-> decompressBlockDXT1(WholeView(BlockBuffer(input)))]
    /\ pc' = "returned"
    /\ UNCHANGED <<proc, listeners, handlers, sigints, dirExists, rmFailed,
                   thrown, rejection, cleanups, cfg, ext, calls, data, input>>

NextBlock == RunDecompressBlock

SpecBlock == InitBlock /\ [][NextBlock]_vars

\* widths and heights 0 .. MaxDxtSide: multiples of 4 and others
MaxDxtSide == 9

\* a buffer of n bytes, byte k (from 1) being k * f modulo 256
PatternBuffer(n, f) ==
    [len |-> n, fill |-> 0,
     segs |-> << [at |-> 0, bytes |-> [k \in 1..n |-> (k * f) % 256]] >>]

InitDxt ==
    /\ PipelineIdle /\ output = Unset
    /\ \E n \in {2 * DXT1BlockSize, 4 * DXT1BlockSize}, f \in {37, 91} :
          input \in [width : 0..MaxDxtSide, height : 0..MaxDxtSide,
                     buffer : {PatternBuffer(n, f)}]

RunParseDxt ==
    /\ pc = "idle"
    /\ output' = parseDxt(WholeView(input.buffer), input.width, input.height)
    /\ pc' = "returned"
    /\ UNCHANGED <<proc, listeners, handlers, sigints, dirExists, rmFailed,
                   thrown, rejection, cleanups, cfg, ext, calls, data, input>>

NextDxt == RunParseDxt

SpecDxt == InitDxt /\ [][NextDxt]_vars

(***************************************************************************)
(* Properties of parseMap (under Spec)                                     *)
(***************************************************************************)
Settled == pc \in {"resolved", "rejected"}
Ended == Settled \/ proc # "running"

\* C1: on every termination path of parseMap (normal return, an error thrown
\* by a step, a SIGINT at any point before the call settles, also while the
\* resources are parsed) the temp directory is removed before the call settles
\* or the process exits.  A failing fs.rm, which cleanup only logs, is left
\* out: the statement is about the paths on which every fs.rm succeeded.
C1_TempDirRemovedOnEveryPath == (Ended /\ ~rmFailed) => ~dirExists

\* C2: when a step of parseMap throws, the call does not resolve; it rejects
\* with that same error, and only after cleanup has run to completion.
C2_RejectsWithSameErrorAfterCleanup ==
    /\ thrown # "" =>
          pc \in {"catch", "catch_io", "catch_unlisten", "rethrow", "rejected"}
    /\ pc = "rejected" =>
          /\ thrown # "" /\ rejection = thrown
          /\ cleanups >= 1
          /\ ~rmFailed => ~dirExists

\* a parse step threw, cleanup removed the populated directory, and the call
\* rejected with the parser's error
C2_Witness ==
    /\ pc = "rejected" /\ rejection = "InputTruncated"
    /\ "parseSMF" \in calls /\ cleanups = 1 /\ ~dirExists

\* C3: a path whose extension is not exactly ".sd7" or ".sdz" is rejected
\* with an error and neither extractor nor any parser is invoked; ".sd7" goes
\* to the 7z extractor only, ".sdz" to the zip extractor only.
C3_ExtensionGate ==
    /\ ext \notin {".sd7", ".sdz"} =>
          /\ calls = {}
          /\ pc \in {"start", "check", "catch", "catch_io", "catch_unlisten",
                     "rethrow", "rejected"}
          /\ pc = "rejected" => rejection = "extension is not supported"
    /\ ext = ".sd7" =>
          /\ "extractSdz" \notin calls
          /\ pc \notin {"start", "check"} => "extractSd7" \in calls
    /\ ext = ".sdz" =>
          /\ "extractSd7" \notin calls
          /\ pc \notin {"start", "check"} => "extractSdz" \in calls

\* ".SD7" differs from ".sd7" only in case: the call is rejected and nothing
\* was invoked
C3_Witness == pc = "rejected" /\ ext = ".SD7" /\ calls = {} /\ cleanups = 1

\* the rasters of a resolved call
ResultRasters ==
    {result.v.heightMap, result.v.typeMap, result.v.metalMap, result.v.miniMap}
    \cup (IF result.v.textureMap.some
          THEN {[width  |-> result.v.textureMap.v.width,
                 height |-> result.v.textureMap.v.height,
                 len    |-> Len(result.v.textureMap.v.data)]}
          ELSE {})

\* C4: every raster a successful parse returns (heightMap, typeMap, metalMap,
\* miniMap and, when built, textureMap) has width > 0, height > 0 and a
\* buffer of exactly width * height * 4 bytes.
C4_RastersWellFormed ==
    pc = "resolved" =>
        \A r \in ResultRasters :
            r.width > 0 /\ r.height > 0 /\ r.len = r.width * r.height * 4

\* C9: with config.skipSmt, parseSMT is never invoked, the water overlay is
\* never applied, and the resolved map has no textureMap while heightMap,
\* typeMap, metalMap and miniMap are produced.
C9_SkipSmtSkipsTextureAndWater ==
    cfg.skipSmt =>
        /\ "parseSMT" \notin calls /\ "applyWater" \notin calls
        /\ pc = "resolved" =>
              /\ ~result.v.textureMap.some
              /\ result.v.heightMap.ok /\ result.v.typeMap.ok
              /\ result.v.metalMap.ok /\ result.v.miniMap.ok

\* a map under water parsed with skipSmt and water both set
C9_Witness ==
    /\ pc = "resolved" /\ cfg.skipSmt /\ cfg.water
    /\ minHeight.v < 0 /\ result.v.heightMap.width > 1

\* the minimum height parseMap works with: mapinfo's smf.minheight if the
\* archive has a mapinfo.lua that gives one, else the .smd file's minheight
\* if it gives one, else the SMF header's minDepth
MinHeightOfArchive ==
    LET a == archive.v IN
    IF a.mapInfo.some /\ a.mapInfo.v.minheight.some THEN a.mapInfo.v.minheight.v
    ELSE IF ~a.mapInfo.some /\ a.smd.some /\ a.smd.v.minHeight.some
    THEN a.smd.v.minHeight.v
    ELSE smf.minDepth

\* C10, as the code has it: once the mosaic is built, the water overlay
\* modifies it only if config.water is set and the minimum height of the
\* archive (MinHeightOfArchive) is below 0; otherwise the returned textureMap
\* is byte-identical to the mosaic parseSMT produced.
C10_WaterOnlyBelowEffectiveMinimum ==
    (pc = "resolved" /\ mosaic.some) =>
        ((~cfg.water \/ MinHeightOfArchive >= 0) => result.v.textureMap = mosaic)

\* the SMF header says the map reaches below 0, the metadata says it does
\* not, and the texture comes back untouched
C10_Witness ==
    /\ pc = "resolved" /\ mosaic.some /\ cfg.water
    /\ smf.minDepth < 0 /\ MinHeightOfArchive >= 0
    /\ result.v.textureMap = mosaic

\* C10 as stated: the overlay modifies the mosaic only if config.water is set
\* and the SMF header's minDepth is below 0, whatever the metadata says.
C10_WaterOnlyBelowSmfMinDepth ==
    (pc = "resolved" /\ mosaic.some) =>
        ((~cfg.water \/ smf.minDepth >= 0) => result.v.textureMap = mosaic)

\* the archive has a well-formed SMF and an SMT but neither mapinfo.lua nor
\* an .smd file
NoMetadata ==
    /\ archive.some /\ ~archive.v.mapInfo.some /\ ~archive.v.smd.some
    /\ archive.v.smf.variant = "ok" /\ archive.v.smf.mapWidth > 0

\* C13: on an archive with an SMF and an SMT but neither mapinfo.lua nor an
\* .smd file, no step of parseMap throws, and the call resolves with the SMF
\* file stem as scriptName.
C13_NoMetadataStillParses ==
    NoMetadata =>
        /\ thrown = "" /\ pc # "rejected"
        /\ pc = "resolved" => result.v.scriptName = archive.v.smfName.v

\* parseSMT has started only if parseSMF has returned, and the mosaic has
\* the dimensions of that SMF's map
SmtAfterSmf ==
    /\ "parseSMT" \in calls => "parseSMF" \in calls /\ smf.ok
    /\ mosaic.some =>
          /\ mosaic.v.width = cfg.mipmapSize * (smf.mapWidth \div 4)
          /\ mosaic.v.height = cfg.mipmapSize * (smf.mapHeight \div 4)

\* applyWater has started only if parseSMF and parseSMT have both returned
WaterAfterBoth ==
    "applyWater" \in calls =>
        /\ "parseSMF" \in calls /\ smf.ok
        /\ "parseSMT" \in calls /\ mosaic.some

\* a step that reads files of the temp directory is in flight
ReadingTempDir == pc \in {"extracting", "resources_io"}

\* the cleanup of parseMap itself has started, at the end of the try block
\* or in its catch block: every reading step the call makes has returned or
\* one has thrown
OwnCleanupAfterReads ==
    /\ pc \in {"cleanup_io", "return", "resolved"} =>
          /\ archive.some /\ "parseSMF" \in calls
          /\ RunsSmt(cfg) => "parseSMT" \in calls
          /\ cfg.parseResources => "parseResources" \in calls
    /\ pc \in {"catch_io", "catch_unlisten", "rethrow", "rejected"} => thrown # ""

\* C14, as the code has it: parseSMT starts only after parseSMF has completed
\* and is given that SMF's tile-index map and dimensions; applyWater starts
\* only after parseSMF and parseSMT have completed; the cleanup parseMap
\* itself makes (on return or in its catch block) starts only after every
\* step that reads files of the temp directory has finished.
C14_StepsInOrder == SmtAfterSmf /\ WaterAfterBoth /\ OwnCleanupAfterReads

\* a call on a map that is wider than high went through every step
C14_Witness ==
    /\ pc = "resolved" /\ "applyWater" \in calls /\ "parseResources" \in calls
    /\ mosaic.v.width = 2 * mosaic.v.height /\ cleanups = 1

\* C14 as stated: in every execution no cleanup of the temp directory, that
\* of the SIGINT handler included, starts while a step that reads files of
\* the temp directory is in flight.
C14_NoCleanupWhileReading ==
    /\ SmtAfterSmf /\ WaterAfterBoth /\ OwnCleanupAfterReads
    /\ handlers > 0 => ~ReadingTempDir

\* C17: an error raised during parseMap, other than a single-tile decode
\* failure and a per-field metadata failure, makes parseMap reject: a call
\* that resolves has had no raster constructor throw in parseSMF and no
\* fs.rm fail in cleanup.
C17_NoErrorSwallowed ==
    pc = "resolved" =>
        /\ ~rmFailed
        /\ ~result.v.heightMap.zero /\ ~result.v.typeMap.zero
        /\ ~result.v.miniMap.zero /\ ~result.v.metalMap.zero

(***************************************************************************)
(* Properties of parseSMT (under SpecSMT)                                  *)
(***************************************************************************)
\* the map positions of a call, and whether its header can be read
Positions == (input.mapWidth \div 4) * (input.mapHeight \div 4)
SmtHeaderReadable == input.smt.len >= SMTHeaderSize

\* C5: parseSMT always returns a raster of M * tilesWide by M * tilesHigh
\* pixels with exactly width * height * 4 bytes; when the assembled tile bytes
\* fall short, as when the tile-index map has fewer entries than the map has
\* positions, the result is a zero-filled buffer of those dimensions.  Stated
\* for the calls whose tile file has a readable header.
C5_ShortfallGivesZeroFilledRaster ==
    (pc = "returned" /\ SmtHeaderReadable /\ Len(input.tileIndexes) < Positions) =>
        /\ output.ok
        /\ output.width = input.mipmapSize * (input.mapWidth \div 4)
        /\ output.height = input.mipmapSize * (input.mapHeight \div 4)
        /\ output.len = output.width * output.height * 4
        /\ \A k \in 1..output.len : output.data[k] = 0

\* the four bytes of pixel (tx, ty) of the tile at map position p (from 1)
MosaicPixel(p, tx, ty) ==
    LET tilesWide == input.mapWidth \div 4
        x == ((p - 1) % tilesWide) * input.mipmapSize + tx
        y == ((p - 1) \div tilesWide) * input.mipmapSize + ty
        at == (y * output.width + x) * 4
    IN  SubSeq(output.data, at + 1, at + 4)

\* C6: a map position whose tile index is outside 0 .. numOfTiles-1 is filled
\* with an opaque-black M x M tile, every pixel (0, 0, 0, 255), in a mosaic of
\* full dimensions.
C6_MissingTilesOpaqueBlack ==
    (pc = "returned" /\ output.ok /\ Len(input.tileIndexes) = Positions) =>
        /\ output.width = input.mipmapSize * (input.mapWidth \div 4)
        /\ output.height = input.mipmapSize * (input.mapHeight \div 4)
        /\ \A p \in 1..Positions :
              input.tileIndexes[p] \notin 0..(input.smt.numOfTiles - 1) =>
                  \A tx \in 0..(input.mipmapSize - 1), ty \in 0..(input.mipmapSize - 1) :
                      MosaicPixel(p, tx, ty) = <<0, 0, 0, 255>>

(***************************************************************************)
(* Properties of parseSMF (under SpecSMF)                                  *)
(***************************************************************************)
\* the first 16 bytes of the input file
First16 == [k \in 1..16 |-> ByteAt(SmfBuffer(input), k - 1)]

\* C7: parseSMF raises an error for every buffer whose first 16 bytes are not
\* "spring map file" followed by a NUL byte.
C7_MagicMismatchRejected ==
    (pc = "returned" /\ First16 # SMFMagic \o <<0>>) => ~output.ok

\* does the region of `size` bytes at `start` lie inside the input file?
Inside(start, size) == start >= 0 /\ start <= input.len /\ start + size <= input.len

\* C8: parseSMF fails whenever the height, type, minimap or metal region its
\* header declares starts or ends outside the buffer; it never returns a layer
\* built from a clamped or short slice.
C8_RegionsOutsideBufferRejected ==
    (pc = "returned" /\ output.ok) =>
        /\ Inside(input.heightMapIndex, (input.mapWidth + 1) * (input.mapHeight + 1) * 2)
        /\ Inside(input.typeMapIndex, (input.mapWidth \div 2) * (input.mapHeight \div 2))
        /\ Inside(input.miniMapIndex, MiniMapDxtLen)
        /\ Inside(input.metalMapIndex, (input.mapWidth \div 2) * (input.mapHeight \div 2))
        /\ output.typeMap.srcLen = (input.mapWidth \div 2) * (input.mapHeight \div 2)
        /\ output.metalMap.srcLen = (input.mapWidth \div 2) * (input.mapHeight \div 2)
        /\ output.miniMap.srcLen = MiniMapDxtLen

(***************************************************************************)
(* Properties of applyWater (under SpecWater)                              *)
(***************************************************************************)
\* C11: applyWater called with a minimum height of 0 or more (exactly 0
\* included) leaves every byte of the texture as it was, for every texture,
\* height vector and maximum height.
C11_DryMapLeavesTextureUnchanged ==
    (pc = "returned" /\ input.minHeight >= 0) => output.data = input.data

\* a texture with colour in it and samples of every height, minimum exactly 0
C11_Witness ==
    /\ pc = "returned" /\ input.minHeight = 0 /\ input.maxHeight = 2
    /\ input.data[1] # 0 /\ Len(input.heightMapValues) > 1
    /\ output.data = input.data

(***************************************************************************)
(* Properties of the scriptName chain (under SpecScript)                   *)
(***************************************************************************)
\* is a metadata name at hand: mapinfo.lua was parsed and gives a name
NameAvailable == input.mapInfo /\ input.name.some /\ input.name.v # <<>>

\* C12: for every metadata name N and version V and SMF file stem S, the
\* scriptName is N verbatim when N contains V as a substring, otherwise
\* N, a space and V, and S when no metadata name is available.  (Stated for
\* the versions that are present; an absent version has no text to append.)
C12_ScriptNameChain ==
    pc = "returned" =>
        /\ (NameAvailable /\ input.version.some) =>
               output.v = IF Includes(input.name.v, input.version.v)
                          THEN input.name.v
                          ELSE input.name.v \o <<" ">> \o input.version.v
        /\ (~NameAvailable /\ input.smfName.some) => output.v = input.smfName.v

(***************************************************************************)
(* Properties of parseMapInfo (under SpecMapInfo)                          *)
(***************************************************************************)
\* the file is a "return { .. }" table expression; its table's fields
IsReturnTable ==
    /\ input.parses /\ input.body # <<>>
    /\ input.body[1].type = "ReturnStatement"
ReturnedFields == input.body[1].arguments[1].fields

\* does the value v hold what the table with these fields says: every
\* string-keyed field with a literal under its key with its value, a negated
\* number as a negative number, a nested table likewise, and a table of
\* positional or integer-keyed values as an array
RECURSIVE Faithful(_, _)
Faithful(fields, v) ==
    /\ \A i \in 1..Len(fields) :
          fields[i].type = "TableKeyString" =>
              /\ v.kind = "object"
              /\ fields[i].key.name \in DOMAIN v.props
              /\ LET e == fields[i].value
                     got == v.props[fields[i].key.name]
                 IN  /\ IsLiteral(e) => got = PrimOf(e)
                     /\ IsNegNumber(e) => got = [kind |-> "number", v |-> 0 - e.argument.value]
                     /\ IsTable(e) => Faithful(e.fields, got)
    /\ (fields # <<>> /\ \A i \in 1..Len(fields) :
                            fields[i].type \in {"TableValue", "TableKey"})
          => v.kind = "array"

\* C15: parseMapInfo applied to a file that is a "return { .. }" table
\* expression returns a nested dictionary that holds every string-keyed field
\* with a string, number or boolean literal under its key with its value, a
\* negated number as a negative number, nested tables likewise, and tables of
\* positional or integer-keyed values as arrays.
C15_ReturnTableParsed ==
    (pc = "returned" /\ IsReturnTable) =>
        output.ok /\ Faithful(ReturnedFields, output.v)

IndexOfPixel(i) == (input.idx[(i \div 4) + 1] \div Pow2(2 * (i % 4))) % 4
DecodedPixel(i) == SubSeq(output.data, i * 4 + 1, i * 4 + 4)

\* C18, as the code has it: in a block whose two colour values are both
\* 0xF800 a pixel with index 0, 1 or 2 is (248, 0, 0, 255) and a pixel with
\* index 3 is (0, 0, 0, 0).
C18_RedBlockPixels ==
    (pc = "returned" /\ input.c0 = 63488 /\ input.c1 = 63488) =>
        \A i \in 0..15 :
            DecodedPixel(i) = IF IndexOfPixel(i) = 3 THEN <<0, 0, 0, 0>>
                              ELSE <<248, 0, 0, 255>>

\* a red block whose rows run through the indices 3, 2, 1, 0
C18_Witness ==
    /\ pc = "returned" /\ input.c0 = 63488 /\ input.c1 = 63488
    /\ input.idx = <<27, 27, 27, 27>>
    /\ DecodedPixel(0) = <<0, 0, 0, 0>> /\ DecodedPixel(1) = <<248, 0, 0, 255>>

\* C18 as stated: every one of the 16 pixels of such a block is
\* (248, 0, 0, 255), whatever the indices.
C18_RedBlockAllRed ==
    (pc = "returned" /\ input.c0 = 63488 /\ input.c1 = 63488) =>
        \A i \in 0..15 : DecodedPixel(i) = <<248, 0, 0, 255>>

\* the channels of a 16-bit colour value v: R = (v & 0xF800) >> 8,
\* G = (v & 0x07E0) >> 3, B = (v & 0x001F) << 3
ChannelsOf(v) ==
    << ((v \div 2048) % 32) * 8, ((v \div 32) % 64) * 4, (v % 32) * 8 >>

\* C19: the palette of (c0, c1) is c0, c1, floor((2 c0 + c1) / 3) and
\* floor((c0 + 2 c1) / 3) per channel, all with alpha 255, if c0 > c1;
\* otherwise c0, c1, floor((c0 + c1) / 2) with alpha 255 and (0, 0, 0, 0).
C19_PaletteOfEndpoints ==
    pc = "returned" =>
        LET a == ChannelsOf(input.colorValue0)
            b == ChannelsOf(input.colorValue1)
        IN  /\ output.lookup[1] = <<a[1], a[2], a[3], 255>>
            /\ output.lookup[2] = <<b[1], b[2], b[3], 255>>
            /\ input.colorValue0 > input.colorValue1 =>
                  /\ output.lookup[3] = [c \in 1..4 |->
                        IF c = 4 THEN 255 ELSE (2 * a[c] + b[c]) \div 3]
                  /\ output.lookup[4] = [c \in 1..4 |->
                        IF c = 4 THEN 255 ELSE (a[c] + 2 * b[c]) \div 3]
            /\ input.colorValue0 <= input.colorValue1 =>
                  /\ output.lookup[3] = [c \in 1..4 |->
                        IF c = 4 THEN 255 ELSE (a[c] + b[c]) \div 2]
                  /\ output.lookup[4] = <<0, 0, 0, 0>>

\* white over a mixed colour, in the four-colour mode
C19_Witness ==
    /\ pc = "returned" /\ input.colorValue0 = 65535 /\ input.colorValue1 = 4660
    /\ output.lookup[1] = <<248, 252, 248, 255>>
    /\ output.lookup[4][4] = 255

\* block number b of the input buffer is wholly inside it
BlockHeld(b) == (b + 1) * DXT1BlockSize <= input.buffer.len
\* byte j (0 .. 7) of block number b of the input buffer
BlockByte(b, j) == ByteAt(input.buffer, b * DXT1BlockSize + j)
\* the palette of block b, from its two little-endian 16-bit colour values
BlockPalette(b) ==
    generateDXT1Lookup(BlockByte(b, 0) + 256 * BlockByte(b, 1),
                       BlockByte(b, 2) + 256 * BlockByte(b, 3))
\* the two bits at bit offset o of the little-endian 32-bit word in bytes
\* 4 .. 7 of block b (the word taken as two 16-bit halves)
IndexWordBits(b, o) ==
    LET low  == BlockByte(b, 4) + 256 * BlockByte(b, 5)
        high == BlockByte(b, 6) + 256 * BlockByte(b, 7)
    IN  IF o < 16 THEN (low \div Pow2(o)) % 4 ELSE (high \div Pow2(o - 16)) % 4
\* the four bytes of output pixel (px, py)
OutputPixel(px, py) ==
    SubSeq(output.data, (py * input.width + px) * 4 + 1,
                        (py * input.width + px) * 4 + 4)
\* the width and the height are multiples of 4 and at least 4
DimsAccepted ==
    /\ input.width % 4 = 0 /\ input.width >= 4
    /\ input.height % 4 = 0 /\ input.height >= 4

\* C20: for a width and a height that are multiples of 4 and at least 4
\* parseDxt returns width * height * 4 bytes, output pixel (px, py) being the
\* palette entry of block floor(py / 4) * (width / 4) + floor(px / 4) that
\* the two bits at offset 2 * ((py mod 4) * 4 + (px mod 4)) of the block's
\* index word select; for any other width or height parseDxt throws.
C20_PixelsFromBlocks ==
    pc = "returned" =>
        IF DimsAccepted
        THEN /\ output.ok
             /\ Len(output.data) = input.width * input.height * 4
             /\ \A px \in 0..(input.width - 1), py \in 0..(input.height - 1) :
                   LET b == (py \div 4) * (input.width \div 4) + (px \div 4)
                   IN  BlockHeld(b) =>
                         OutputPixel(px, py) =
                           BlockPalette(b)[IndexWordBits(b,
                               2 * ((py % 4) * 4 + (px % 4))) + 1]
        ELSE ~output.ok

\* an image of two rows of two blocks, every block in the buffer
C20_Witness ==
    /\ pc = "returned" /\ input.width = 8 /\ input.height = 8
    /\ BlockHeld(3) /\ output.ok /\ Len(output.data) = 256
    /\ OutputPixel(5, 6) = BlockPalette(3)[IndexWordBits(3, 18) + 1]

(***************************************************************************)
(* Properties of the tile catalogue of parseSMT (under SpecSMT)            *)
(***************************************************************************)
\* stride = floor((smtLength - 32) / numOfTiles), the native tile side that
\* goes with it, and the byte at which the record of tile i starts
StrideOfInput == (input.smt.len - 32) \div input.smt.numOfTiles
NativeSide ==
    IF StrideOfInput >= 512 THEN 32
    ELSE IF StrideOfInput >= 128 THEN 16
    ELSE IF StrideOfInput >= 32 THEN 8 ELSE 4
RecordStart(i) ==
    IF StrideOfInput >= 512 THEN 32 + 680 * i ELSE 32 + StrideOfInput * i
\* the bytes a record read takes in: 512 of a classic record, else the stride
RecordRead == IF StrideOfInput >= 512 THEN 512 ELSE StrideOfInput
\* the file holds the record of tile i and its native * native / 2 DXT bytes
RecordHeld(i) ==
    /\ RecordStart(i) + RecordRead <= input.smt.len
    /\ RecordStart(i) + (NativeSide * NativeSide) \div 2 <= input.smt.len
\* the rows of the tile decoded from native * native / 2 bytes at the start
\* of the record of tile i
TileFromRecord(i) ==
    TileRows(
        parseDxt(Slice(SmtBuffer(input.smt), RecordStart(i),
                       RecordStart(i) + (NativeSide * NativeSide) \div 2),
                 NativeSide, NativeSide).data,
        NativeSide, input.mipmapSize)
\* the rows of the mosaic at map position p (from 1)
MosaicTile(p) ==
    [r \in 1..input.mipmapSize |->
        LET tilesWide == input.mapWidth \div 4
            x == ((p - 1) % tilesWide) * input.mipmapSize
            y == ((p - 1) \div tilesWide) * input.mipmapSize + (r - 1)
            at == (y * output.width + x) * 4
        IN  SubSeq(output.data, at + 1, at + input.mipmapSize * 4)]
\* a call with a readable header, tiles in the file, and a tile index for
\* every map position, that returned a raster
CatalogueCall ==
    /\ pc = "returned" /\ SmtHeaderReadable /\ input.smt.numOfTiles > 0
    /\ Len(input.tileIndexes) = Positions /\ output.ok

\* C21: with stride = floor((smtLength - 32) / numOfTiles), the record of
\* tile i starts at 32 + 680 i and holds a 32 x 32 tile at offset 0 when
\* stride >= 512, and else starts at 32 + stride i and holds a 16 x 16,
\* 8 x 8 or 4 x 4 tile for stride >= 128, >= 32 or below; the tile shown at
\* a map position is the one decoded from exactly native * native / 2 bytes
\* at the start of its record.
C21_TileFromItsRecord ==
    CatalogueCall =>
        \A p \in 1..Positions :
            LET i == input.tileIndexes[p]
            IN  (i < input.smt.numOfTiles /\ RecordHeld(i)) =>
                    MosaicTile(p) = TileFromRecord(i)

\* the second of two classic records, shown at the second map position
C21_Witness ==
    /\ CatalogueCall /\ StrideOfInput = 690 /\ input.tileIndexes = <<0, 1>>
    /\ RecordStart(1) = 712 /\ RecordHeld(1)
    /\ MosaicTile(2) = TileFromRecord(1)

(***************************************************************************)
(* Properties of the mosaic assembly of parseSMT (under SpecSMT)           *)
(***************************************************************************)
\* the catalogue of a call: refTiles, on 0 .. numOfTiles-1
CatalogueOfInput ==
    RefTiles(SmtBuffer(input.smt), input.tileIndexes, input.smt.numOfTiles,
             CalcStride(input.smt.numOfTiles, input.smt.len - SMTHeaderSize),
             input.mipmapSize)
\* the four bytes of mosaic pixel (x, y)
MosaicAt(x, y) ==
    SubSeq(output.data, (y * output.width + x) * 4 + 1, (y * output.width + x) * 4 + 4)
\* the four bytes of pixel (tx, ty) of a tile given as rows
TilePixel(tile, tx, ty) == SubSeq(tile[ty + 1], tx * 4 + 1, tx * 4 + 4)
\* every mosaic pixel is the pixel (x mod M, y mod M) of the tile that the
\* catalogue cat holds for the tile index of its map position
PixelsFromCatalogue(cat) ==
    \A x \in 0..(output.width - 1), y \in 0..(output.height - 1) :
        LET M == input.mipmapSize
            i == input.tileIndexes[(y \div M) * (input.mapWidth \div 4) + (x \div M) + 1]
        IN  i \in DOMAIN cat =>
                MosaicAt(x, y) = TilePixel(cat[i], x % M, y % M)

\* C22: with a tile index for every map position, mosaic pixel (x, y) is
\* pixel (x mod M, y mod M) of the catalogue tile whose index the tile-index
\* map holds at floor(y / M) * tilesWide + floor(x / M), and a tile index
\* that occurs at several positions shows the same tile at each of them.
C22_MosaicFromCatalogue ==
    (pc = "returned" /\ SmtHeaderReadable /\ output.ok
        /\ input.smt.numOfTiles >= 0 /\ Len(input.tileIndexes) = Positions) =>
        /\ output.width = input.mipmapSize * (input.mapWidth \div 4)
        /\ output.height = input.mipmapSize * (input.mapHeight \div 4)
        /\ PixelsFromCatalogue(Evaluated(CatalogueOfInput))
        /\ \A p \in 1..Positions, q \in 1..Positions :
              input.tileIndexes[p] = input.tileIndexes[q] =>
                  MosaicTile(p) = MosaicTile(q)

\* a map of two by two positions showing tile 0 at its first and its last
\* position, with tile 1 between them
C22_Witness ==
    /\ pc = "returned" /\ output.ok /\ input.smt.numOfTiles = 2
    /\ input.mapWidth = 8 /\ input.mapHeight = 8
    /\ input.tileIndexes = <<0, 1, 2, 0>> /\ input.mipmapSize = 4
    /\ input.smt.len = SMTHeaderSize + 16
    /\ MosaicTile(1) = MosaicTile(4) /\ MosaicTile(1) # MosaicTile(2)
    /\ MosaicAt(5, 1) = TilePixel(CatalogueOfInput[1], 1, 1)

\* the inferred stride is under the DXT1 length of the inferred native size
StrideUnderBlock ==
    /\ input.smt.numOfTiles > 0
    /\ StrideOfInput < (NativeSide * NativeSide) \div 2

\* C23: when numOfTiles is zero, or the inferred stride is smaller than the
\* DXT1 length of the inferred native tile size, parseSMT returns a mosaic of
\* full dimensions whose every pixel is black: no tile is decoded.  Stated
\* for the calls with a tile index for every map position.
C23_ShortStrideAllBlack ==
    (pc = "returned" /\ SmtHeaderReadable /\ Len(input.tileIndexes) = Positions
        /\ (input.smt.numOfTiles = 0 \/ StrideUnderBlock)) =>
        /\ output.ok
        /\ output.width = input.mipmapSize * (input.mapWidth \div 4)
        /\ output.height = input.mipmapSize * (input.mapHeight \div 4)
        /\ \A x \in 0..(output.width - 1), y \in 0..(output.height - 1) :
              SubSeq(MosaicAt(x, y), 1, 3) = <<0, 0, 0>>

(***************************************************************************)
(* Properties of the minimap region of parseSMF (under SpecSMF)            *)
(***************************************************************************)
\* the length of the minimap region as the header of the input declares it
DeclaredMiniMapLength ==
    IF input.metalMapIndex > input.miniMapIndex
    THEN input.metalMapIndex - input.miniMapIndex
    ELSE IF input.featureMapIndex > input.miniMapIndex
    THEN input.featureMapIndex - input.miniMapIndex
    ELSE input.len - input.miniMapIndex
\* the bytes of the file between positions start and start + size
BytesBetween(start, size) ==
    Max(Min(Max(start + size, 0), input.len) - Min(Max(start, 0), input.len), 0)

\* C24: the minimap region starts at miniMapIndex and its length is
\* metalMapIndex - miniMapIndex when metalMapIndex > miniMapIndex, otherwise
\* featureMapIndex - miniMapIndex when featureMapIndex > miniMapIndex,
\* otherwise bufferLength - miniMapIndex; it is never the constant 699048.
C24_MiniMapRegionInferred ==
    (pc = "returned" /\ output.ok) =>
        /\ output.miniMapIndex = input.miniMapIndex
        /\ output.miniMapSize = DeclaredMiniMapLength
        /\ output.miniMapSize # 699048
        /\ output.miniMap.srcLen =
              BytesBetween(input.miniMapIndex, DeclaredMiniMapLength)

\* a file that declares no metal map: the minimap runs to the feature map
C24_Witness ==
    /\ pc = "returned" /\ output.ok /\ input.variant = "noMetal"
    /\ input.mapWidth = 8 /\ input.mapHeight = 4
    /\ input.featureMapIndex > input.miniMapIndex
    /\ output.miniMapSize = input.featureMapIndex - input.miniMapIndex
    /\ output.miniMap.srcLen = output.miniMapSize

(***************************************************************************)
(* Properties of the water overlay (under SpecWater)                       *)
(***************************************************************************)
\* the four bytes of pixel p (from 0) before and after applyWater
PixelBefore(p) == SubSeq(input.data, p * 4 + 1, p * 4 + 4)
PixelAfter(p) == SubSeq(output.data, p * 4 + 1, p * 4 + 4)
\* the grid column, the grid row and the index in the height vector that
\* applyWater samples for pixel p
SampleColumn(p) == ((p % input.width) + 1) \div (input.mipmapSize \div 4)
SampleRow(p) == ((p \div input.width) + 1) \div (input.mipmapSize \div 4)
SampleIndex(p) ==
    ((input.width \div (input.mipmapSize \div 4)) + 1) * SampleRow(p) + SampleColumn(p)
\* the sample of pixel p exists and its normalized height hv / 65536 is
\* strictly below |min| / d (infinite when d is 0, the minimum being below 0)
StrictlyBelow(p, d) ==
    /\ SampleIndex(p) < Len(input.heightMapValues)
    /\ LET hv == input.heightMapValues[SampleIndex(p) + 1]
       IN  IF d > 0 THEN hv * d < 65536 * Abs(input.minHeight)
           ELSE IF d = 0 THEN TRUE
           ELSE hv * d > 65536 * Abs(input.minHeight)

C26_SampleInsideHeightVector ==
    pc = "returned" =>
        /\ output.heightMapX = (input.x + 1) \div (input.mipmapSize \div 4)
        /\ output.heightMapY = (input.y + 1) \div (input.mipmapSize \div 4)
        /\ output.heightMapX <= input.mapWidth
        /\ output.heightMapY <= input.mapHeight
        /\ output.position = (input.mapWidth + 1) * output.heightMapY + output.heightMapX
        /\ output.position >= 0
        /\ output.position < (input.mapWidth + 1) * (input.mapHeight + 1)

\* the last pixel of the 32 x 64 texture of a map of 4 x 8 at mipmap size 32
\* takes the last height sample
C26_Witness ==
    /\ pc = "returned" /\ input.mapWidth = 4 /\ input.mapHeight = 8
    /\ input.mipmapSize = 32 /\ input.x = 31 /\ input.y = 63
    /\ output.heightMapX = 4 /\ output.heightMapY = 8 /\ output.position = 44

(***************************************************************************)
(* Properties of calculateMipChainSize (under SpecMipChain)                *)
(***************************************************************************)
\* the size of level i: (max(1, w >> i), max(1, h >> i))
LevelSide(n, i) == Max(1, n \div Pow2(i))
\* ceil(n / 4)
CeilQuarter(n) == (n + 3) \div 4
\* the bytes of level i of the input: blocks of 8 bytes for DXT1 and of 16
\* for DXT3 and DXT5, else bitCount / 8 bytes a pixel (4 when bitCount is 0)
StatedLevelBytes(i) ==
    LET lw == LevelSide(input.width, i)
        lh == LevelSide(input.height, i)
    IN  IF input.formatCode = "DXT1" THEN CeilQuarter(lw) * CeilQuarter(lh) * 8
        ELSE IF input.formatCode \in {"DXT3", "DXT5"}
        THEN CeilQuarter(lw) * CeilQuarter(lh) * 16
        ELSE lw * lh * (IF input.bitCount = 0 THEN 4 ELSE input.bitCount \div 8)
\* the sum of the levels 0 .. n-1
RECURSIVE StatedChainBytes(_)
StatedChainBytes(n) ==
    IF n <= 0 THEN 0 ELSE StatedLevelBytes(n - 1) + StatedChainBytes(n - 1)

\* C27: calculateMipChainSize is the sum over the levels 0 .. max(1,
\* mipCount) - 1 of ceil(lw / 4) * ceil(lh / 4) * blockSize for the block
\* formats and of lw * lh * bitCount / 8 for the others, for every bitCount
\* in 8, 16, 24 and 32 (4 bytes a pixel when bitCount is 0).
C27_MipChainSizeAsStated ==
    pc = "returned" =>
        output.totalBytes = StatedChainBytes(Max(1, input.mipCount))

(***************************************************************************)
(* Properties of the pixel loop of cubemapToEquirectangular (under         *)
(* SpecEquirect)                                                           *)
(***************************************************************************)
\* the output pixel at (W / 2, H / 2), and the one at (0, 0)
CentrePixel ==
    /\ 2 * input.x = input.outputWidth
    /\ 2 * input.y = input.outputWidth \div 2
OriginPixel == input.x = 0 /\ input.y = 0

\* C28: the output pixel at (W / 2, H / 2) is sampled from face 5 (-Z) and
\* the one at (0, 0) from face 2 (+Y); every output pixel is sampled from one
\* face, at face pixel coordinates within 0 .. S-1 on both axes.
C28_CentreFromBackFace ==
    pc = "returned" =>
        /\ CentrePixel => output.faceIndex = 5
        /\ OriginPixel => output.faceIndex = 2
        /\ output.faceIndex \in 0..5
        /\ output.pixelU \in 0..(input.faceSize - 1)
        /\ output.pixelV \in 0..(input.faceSize - 1)

(***************************************************************************)
(* Properties of parseMap calls in flight together (under SpecCalls)       *)
(***************************************************************************)
\* C29: the temp directory of a call is used by that call only: while a call
\* extracts into its directory the directory exists, and while it reads from
\* it the files it extracted are there, whatever the cleanup or the failure
\* of another call does, calls for archives of the same stem included.
C29_TempDirOwnedByCall ==
    \A c \in Callers :
        /\ pc[c] = "extracting" => dirExists[TempDirOf(c)].exists
        /\ pc[c] \in {"reading", "resources_io"} =>
              c \in dirExists[TempDirOf(c)].files

\* every call has settled
AllSettled == \A c \in Callers : pc[c] \in {"resolved", "rejected"}

\* C30: once every parseMap call has resolved or rejected, the SIGINT
\* listeners of the process are those it had before the first call, and a
\* listener of other code is never removed.
C30_ListenersRestored ==
    /\ input.others \subseteq listeners
    /\ AllSettled => listeners = input.others

\* one call resolved and the other rejected, beside a listener of other code
C30_Witness ==
    /\ AllSettled /\ pc[1] = "resolved" /\ pc[2] = "rejected"
    /\ input.others = OtherListeners /\ listeners = OtherListeners

====
